---- MODULE Spec2Model ----
(***************************************************************************)
(* A model of the CloudPaste WebDAV storage driver: the path utilities,    *)
(* the batch operations, and the single-item file / directory operations.  *)
(*                                                                         *)
(* A JavaScript string is modelled as a sequence of one-character strings, *)
(* so that "/docs/" is <<"/", "d", "o", "c", "s", "/">>.                   *)
(***************************************************************************)
EXTENDS Integers, Sequences, FiniteSets, TLC

(***************************************************************************)
(* Bounds of the model.                                                    *)
(***************************************************************************)
MaxPathLen == 3
MaxChain == 3
MaxItems == 3
MaxText == 3

VARIABLES
    vals,       \* path utilities: vals[1] is the input, vals[k+1] the result of ops[k]
    ops,        \* path utilities: the functions applied so far
    batchOp,    \* batch: "remove", "copy" or "move"
    items,      \* batch: the input list of the call
    idx,        \* batch: position of the for-of loop (1-based)
    batchPc,    \* batch: "idle", "loop", "await", "done"
    results,    \* batch: the local array results
    errors,     \* batch: the local array errors
    inFlight,   \* batch: the loop positions whose HTTP request has not settled yet
    wire,       \* batch: the requests the server has received, in order
    answers,    \* batch: how each request settled, in order
    batchRet,   \* batch: the value the call returned, or what it threw
    opName,     \* single-item operation: the method called
    opArgs,     \* single-item operation: its arguments (and the base path of config.url)
    opPc,       \* single-item operation: "idle", "await", "done"
    opWire,     \* single-item operation: the requests it has issued
    opResp,     \* single-item operation: how the awaited request settled
    opOut,      \* single-item operation: the value returned or the exception thrown
    initialized, \* driver: the flag initialize() sets once the modules are built
    diagPc,     \* connection test: "idle", the stage about to run, "cleanup", "finish", "done"
    diagConfig, \* connection test: the configuration row found, with its decrypted credentials
    testResult, \* connection test: the local object testResult
    diagWire,   \* connection test: the requests issued, in order
    diagAnswers, \* connection test: what each stage met (a response, an error), in order
    diagRet,    \* connection test: the payload returned or the exception thrown
    clientPc,   \* WebDAVClient: "idle", "fetch", "done"
    clientCall, \* WebDAVClient: the verb helper called and its arguments
    fetches,    \* WebDAVClient: the calls of fetch made, in order
    clientRet,  \* WebDAVClient: the response returned or the exception thrown
    fnName,     \* pure functions: the function applied
    fnIn,       \* pure functions: its argument
    fnOut,      \* pure functions: what it returned or threw
    configs,    \* configuration service: the rows of the WebDAV configuration table
    files,      \* configuration service: the storage_config_id of each WebDAV file row
    delPc,      \* deleteWebDAVConfig: "idle", "find", "count", "delete", "done"
    delArgs,    \* deleteWebDAVConfig: the arguments id and adminId
    delRet,     \* deleteWebDAVConfig: how the call ended
    webdavClient \* driver: the client initialize() built, or None (null)

pathVars == <<vals, ops>>
batchVars == <<batchOp, items, idx, batchPc, results, errors, inFlight, wire, answers, batchRet>>
opVars == <<opName, opArgs, opPc, opWire, opResp, opOut, initialized>>
diagVars == <<diagPc, diagConfig, testResult, diagWire, diagAnswers, diagRet>>
clientVars == <<clientPc, clientCall, fetches, clientRet>>
fnVars == <<fnName, fnIn, fnOut>>
cfgVars == <<configs, files, delPc, delArgs, delRet>>
driverVars == <<webdavClient>>
vars == <<vals, ops, batchOp, items, idx, batchPc, results, errors, inFlight, wire, answers,
          batchRet, opName, opArgs, opPc, opWire, opResp, opOut, initialized,
          diagPc, diagConfig, testResult, diagWire, diagAnswers, diagRet,
          clientPc, clientCall, fetches, clientRet, fnName, fnIn, fnOut,
          configs, files, delPc, delArgs, delRet, webdavClient>>

None == [kind |-> "none"]

ClientIdle == clientPc = "idle" /\ clientCall = None /\ fetches = <<>> /\ clientRet = None

FnIdle == fnName = "none" /\ fnIn = None /\ fnOut = None

CfgIdle == configs = {} /\ files = <<>> /\ delPc = "idle" /\ delArgs = None /\ delRet = None

DriverIdle == webdavClient = None

(***************************************************************************)
(* Generic helpers on sequences.                                           *)
(***************************************************************************)
SeqsUpTo(S, n) == UNION {[1..k -> S] : k \in 0..n}

Last(s) == s[Len(s)]

(***************************************************************************)
(* String primitives of JavaScript used by the path utilities.             *)
(***************************************************************************)
startsWith(s, c) == Len(s) > 0 /\ s[1] = c

endsWith(s, c) == Len(s) > 0 /\ s[Len(s)] = c

\* s.replace(/\/+/g, '/'): every run of slashes becomes one slash
RECURSIVE CollapseSlashes(_)
CollapseSlashes(s) ==
    IF s = <<>> THEN <<>>
    ELSE IF Len(s) >= 2 /\ s[1] = "/" /\ s[2] = "/" THEN CollapseSlashes(Tail(s))
    ELSE <<Head(s)>> \o CollapseSlashes(Tail(s))

\* s.split(sep): the pieces between the separators; always at least one piece
RECURSIVE SplitFrom(_, _, _)
SplitFrom(s, sep, cur) ==
    IF s = <<>> THEN <<cur>>
    ELSE IF Head(s) = sep THEN <<cur>> \o SplitFrom(Tail(s), sep, <<>>)
    ELSE SplitFrom(Tail(s), sep, Append(cur, Head(s)))

SplitOn(s, sep) == SplitFrom(s, sep, <<>>)

Split(s) == SplitOn(s, "/")

\* segs.join('/')
RECURSIVE Join(_)
Join(segs) ==
    IF segs = <<>> THEN <<>>
    ELSE IF Len(segs) = 1 THEN Head(segs)
    ELSE Head(segs) \o <<"/">> \o Join(Tail(segs))

(***************************************************************************)
(* encodeURIComponent / decodeURIComponent on the characters of the model. *)
(* Letters and digits are unreserved and stay as they are; every other     *)
(* character becomes "%" and the two hex digits of its code.               *)
(***************************************************************************)
Unreserved == {"a", "d", "m", "s", "v", ".", "0", "2", "3", "5", "F"}

Escaped == {" ", "#", "%", "/", "\"", "NUL", "STX", "ETX", "ENQ"}

HexOf(c) ==
    CASE c = " " -> <<"2", "0">>
      [] c = "#" -> <<"2", "3">>
      [] c = "%" -> <<"2", "5">>
      [] c = "/" -> <<"2", "F">>
      [] c = "\"" -> <<"2", "2">>
      [] c = "NUL" -> <<"0", "0">>
      [] c = "STX" -> <<"0", "2">>
      [] c = "ETX" -> <<"0", "3">>
      [] c = "ENQ" -> <<"0", "5">>

HexPairs == {HexOf(c) : c \in Escaped}

CharOfHex(h) == CHOOSE c \in Escaped : HexOf(c) = h

encodeURIComponentChar(c) == IF c \in Unreserved THEN <<c>> ELSE <<"%">> \o HexOf(c)

RECURSIVE encodeURIComponent(_)
encodeURIComponent(s) ==
    IF s = <<>> THEN <<>>
    ELSE encodeURIComponentChar(Head(s)) \o encodeURIComponent(Tail(s))

URIError == <<"URIError">>

\* a "%" must be followed by two hex digits, otherwise URIError is thrown
RECURSIVE decodeURIComponent(_)
decodeURIComponent(s) ==
    IF s = <<>> THEN <<>>
    ELSE IF Head(s) # "%" THEN
        LET rest == decodeURIComponent(Tail(s))
        IN  IF rest = URIError THEN URIError ELSE <<Head(s)>> \o rest
    ELSE IF Len(s) < 3 \/ <<s[2], s[3]>> \notin HexPairs THEN URIError
    ELSE
        LET rest == decodeURIComponent(SubSeq(s, 4, Len(s)))
        IN  IF rest = URIError THEN URIError ELSE <<CharOfHex(<<s[2], s[3]>>)>> \o rest

(***************************************************************************)
(* WebDAVPathUtils                                                         *)
(***************************************************************************)
\* mutant: the trailing slash of a file path is removed without the root check
normalizeNoRootCheck(path, isDirectory) ==
    IF path = <<>> THEN <<"/">>
    ELSE
        LET rooted == IF startsWith(path, "/") THEN path ELSE <<"/">> \o path
            collapsed == CollapseSlashes(rooted)
            withSlash == IF isDirectory /\ ~endsWith(collapsed, "/")
                         THEN Append(collapsed, "/") ELSE collapsed
        IN  IF ~isDirectory /\ endsWith(withSlash, "/")
            THEN SubSeq(withSlash, 1, Len(withSlash) - 1)
            ELSE withSlash

\* mutant: repeated slashes are not collapsed
normalizeNoCollapse(path, isDirectory) ==
    IF path = <<>> THEN <<"/">>
    ELSE
        LET rooted == IF startsWith(path, "/") THEN path ELSE <<"/">> \o path
            withSlash == IF isDirectory /\ ~endsWith(rooted, "/")
                         THEN Append(rooted, "/") ELSE rooted
        IN  IF ~isDirectory /\ endsWith(withSlash, "/") /\ withSlash # <<"/">>
            THEN SubSeq(withSlash, 1, Len(withSlash) - 1)
            ELSE withSlash

normalizeWebDAVPath(path, isDirectory) ==
    IF path = <<>> THEN <<"/">>
    ELSE
        LET rooted == IF startsWith(path, "/") THEN path ELSE <<"/">> \o path
            collapsed == CollapseSlashes(rooted)
            withSlash == IF isDirectory /\ ~endsWith(collapsed, "/")
                         THEN Append(collapsed, "/") ELSE collapsed
        IN  IF ~isDirectory /\ endsWith(withSlash, "/") /\ withSlash # <<"/">>
            THEN SubSeq(withSlash, 1, Len(withSlash) - 1)
            ELSE withSlash

\* mutant: the whole path is encoded at once, separators included
encodeWholePath(path) == encodeURIComponent(path)

encodeWebDAVPath(path) ==
    LET segs == Split(path)
    IN  Join([i \in 1..Len(segs) |-> encodeURIComponent(segs[i])])

decodeWebDAVPath(path) ==
    LET segs == Split(path)
        dec == [i \in 1..Len(segs) |-> decodeURIComponent(segs[i])]
    IN  IF \E i \in 1..Len(segs) : dec[i] = URIError THEN URIError ELSE Join(dec)

(***************************************************************************)
(* The path utilities as a machine: a chain of applications on one input.  *)
(***************************************************************************)
PathAlphabet == {"/", "a", " ", "#", "%", "2", "0"}

PathInputs == SeqsUpTo(PathAlphabet, MaxPathLen)

PathIdle == vals = <<>> /\ ops = <<>>

PathInit == vals \in {<<p>> : p \in PathInputs} /\ ops = <<>>

CanApply == vals # <<>> /\ Len(ops) < MaxChain /\ Last(vals) # URIError

Normalize(c) ==
    /\ CanApply
    /\ vals' = Append(vals, normalizeWebDAVPath(Last(vals), c))
    /\ ops' = Append(ops, <<"normalize", c>>)
    /\ UNCHANGED <<batchVars, opVars, diagVars, clientVars, fnVars, cfgVars, driverVars>>

Encode ==
    /\ CanApply
    /\ vals' = Append(vals, encodeWebDAVPath(Last(vals)))
    /\ ops' = Append(ops, <<"encode">>)
    /\ UNCHANGED <<batchVars, opVars, diagVars, clientVars, fnVars, cfgVars, driverVars>>

Decode ==
    /\ CanApply
    /\ vals' = Append(vals, decodeWebDAVPath(Last(vals)))
    /\ ops' = Append(ops, <<"decode">>)
    /\ UNCHANGED <<batchVars, opVars, diagVars, clientVars, fnVars, cfgVars, driverVars>>

(***************************************************************************)
(* HTTP as the operations see it: fetch either resolves with a response    *)
(* (any status) or rejects, and WebDAVClient.request rethrows a rejection  *)
(* as one HTTPException.                                                   *)
(***************************************************************************)
ok(status) == status \in 200..299

StatusText(status) ==
    CASE status = 200 -> "OK"
      [] status = 201 -> "Created"
      [] status = 204 -> "No Content"
      [] status = 207 -> "Multi-Status"
      [] status = 304 -> "Not Modified"
      [] status = 401 -> "Unauthorized"
      [] status = 404 -> "Not Found"
      [] status = 405 -> "Method Not Allowed"
      [] status = 409 -> "Conflict"
      [] status = 500 -> "Internal Server Error"
      [] status = 507 -> "Insufficient Storage"

\* the message of the HTTPException WebDAVClient.request throws
RequestFailedMessage == "WebDAV request failed: fetch failed"

\* the request each client helper builds; the batch calls pass overwrite: true
\* and depth: 'infinity' unless the options say otherwise
DeleteRequest(path) == [method |-> "DELETE", path |-> path]

CopyRequest(sourcePath, targetPath) ==
    [method |-> "COPY", path |-> sourcePath, Destination |-> <<"baseUrl", targetPath>>,
     Overwrite |-> "T", Depth |-> "infinity"]

MoveRequest(sourcePath, targetPath) ==
    [method |-> "MOVE", path |-> sourcePath, Destination |-> <<"baseUrl", targetPath>>,
     Overwrite |-> "T"]

(***************************************************************************)
(* WebDAVBatchOperations                                                   *)
(***************************************************************************)
BatchPaths == {"/a.txt", "/b.txt"}

BatchPairs == {[sourcePath |-> "/a.txt", targetPath |-> "/b.txt"],
               [sourcePath |-> "/b.txt", targetPath |-> "/c.txt"]}

BatchInputs(op) == SeqsUpTo(IF op = "remove" THEN BatchPaths ELSE BatchPairs, MaxItems)

BatchStatuses == {204, 404, 409, 500}

BatchRequest(op, item) ==
    CASE op = "remove" -> DeleteRequest(item)
      [] op = "copy" -> CopyRequest(item.sourcePath, item.targetPath)
      [] op = "move" -> MoveRequest(item.sourcePath, item.targetPath)

\* the entry pushed to results on response.ok
SuccessEntry(op, item) ==
    CASE op = "remove" -> [path |-> item, success |-> TRUE, message |-> "deleted"]
      [] op = "copy" -> [sourcePath |-> item.sourcePath, targetPath |-> item.targetPath,
                         success |-> TRUE, message |-> "copied"]
      [] op = "move" -> [sourcePath |-> item.sourcePath, targetPath |-> item.targetPath,
                         success |-> TRUE, message |-> "moved"]

\* the entry pushed to errors on a response that is not ok
FailureEntry(op, item, status) ==
    CASE op = "remove" ->
            [path |-> item, success |-> FALSE,
             message |-> IF status = 404 THEN <<"file does not exist">>
                         ELSE <<"delete failed", StatusText(status)>>,
             status |-> status]
      [] op \in {"copy", "move"} ->
            [sourcePath |-> item.sourcePath, targetPath |-> item.targetPath,
             success |-> FALSE,
             message |-> IF status = 404 THEN <<"source does not exist">>
                         ELSE IF status = 409 THEN <<"target already exists">>
                         ELSE <<op, "failed", StatusText(status)>>,
             status |-> status]

\* the entry pushed to errors in the catch block
ThrownEntry(op, item) ==
    CASE op = "remove" ->
            [path |-> item, success |-> FALSE,
             message |-> <<"delete failed", RequestFailedMessage>>]
      [] op \in {"copy", "move"} ->
            [sourcePath |-> item.sourcePath, targetPath |-> item.targetPath,
             success |-> FALSE, message |-> <<op, "failed", RequestFailedMessage>>]

\* mutant: Array.prototype.unshift instead of push
unshift(list, entry) == <<entry>> \o list

push(list, entry) == Append(list, entry)

\* mutant: success is reported as soon as one item succeeded
BatchResultAnySuccess(res, errs, input) ==
    [raised |-> FALSE,
     success |-> Len(res) > 0,
     results |-> res,
     errors |-> errs,
     total |-> Len(input),
     successCount |-> Len(res),
     errorCount |-> Len(errs)]

\* the object the batch call returns
BatchResult(res, errs, input) ==
    [raised |-> FALSE,
     success |-> Len(errs) = 0,
     results |-> res,
     errors |-> errs,
     total |-> Len(input),
     successCount |-> Len(res),
     errorCount |-> Len(errs)]

OpIdle ==
    /\ opName = "none" /\ opArgs = None /\ opPc = "idle"
    /\ opWire = <<>> /\ opResp = None /\ opOut = None
    /\ initialized = FALSE

DiagIdle ==
    /\ diagPc = "idle" /\ diagConfig = None /\ testResult = None
    /\ diagWire = <<>> /\ diagAnswers = <<>> /\ diagRet = None

BatchIdle ==
    /\ batchOp = "none" /\ items = <<>> /\ idx = 0 /\ batchPc = "idle"
    /\ results = <<>> /\ errors = <<>> /\ inFlight = {} /\ wire = <<>>
    /\ answers = <<>> /\ batchRet = None

\* batchRemoveItems / batchCopyItems / batchMoveItems is called
BatchCall(op, input) ==
    /\ batchPc = "idle"
    /\ batchOp' = op
    /\ items' = input
    /\ results' = <<>>
    /\ errors' = <<>>
    /\ idx' = 1
    /\ batchPc' = "loop"
    /\ UNCHANGED <<inFlight, wire, answers, batchRet>>
    /\ UNCHANGED <<pathVars, opVars, diagVars, clientVars, fnVars, cfgVars, driverVars>>

\* mutant: the request is started without awaiting it (as with Promise.all)
BatchIssueNoAwait ==
    /\ batchPc = "loop"
    /\ idx <= Len(items)
    /\ wire' = Append(wire, BatchRequest(batchOp, items[idx]))
    /\ inFlight' = inFlight \cup {idx}
    /\ idx' = idx + 1
    /\ UNCHANGED <<batchOp, items, batchPc, results, errors, answers, batchRet>>
    /\ UNCHANGED <<pathVars, opVars, diagVars, clientVars, fnVars, cfgVars, driverVars>>

\* the loop body starts: await this.webdavClient.delete / copy / move
BatchIssue ==
    /\ batchPc = "loop"
    /\ idx <= Len(items)
    /\ wire' = Append(wire, BatchRequest(batchOp, items[idx]))
    /\ inFlight' = inFlight \cup {idx}
    /\ batchPc' = "await"
    /\ UNCHANGED <<batchOp, items, idx, results, errors, answers, batchRet>>
    /\ UNCHANGED <<pathVars, opVars, diagVars, clientVars, fnVars, cfgVars, driverVars>>

\* the awaited request resolves with a response
BatchRespond(status) ==
    /\ batchPc = "await"
    /\ idx \in inFlight
    /\ inFlight' = inFlight \ {idx}
    /\ answers' = Append(answers, [kind |-> "response", status |-> status])
    /\ IF ok(status)
       THEN /\ results' = push(results, SuccessEntry(batchOp, items[idx]))
            /\ errors' = errors
       ELSE /\ errors' = push(errors, FailureEntry(batchOp, items[idx], status))
            /\ results' = results
    /\ idx' = idx + 1
    /\ batchPc' = "loop"
    /\ UNCHANGED <<batchOp, items, wire, batchRet>>
    /\ UNCHANGED <<pathVars, opVars, diagVars, clientVars, fnVars, cfgVars, driverVars>>

\* mutant: no try / catch around the request, the exception leaves the call
BatchNoCatch ==
    /\ batchPc = "await"
    /\ idx \in inFlight
    /\ inFlight' = inFlight \ {idx}
    /\ answers' = Append(answers, [kind |-> "throw"])
    /\ batchRet' = [raised |-> TRUE, message |-> RequestFailedMessage]
    /\ batchPc' = "done"
    /\ UNCHANGED <<batchOp, items, idx, results, errors, wire>>
    /\ UNCHANGED <<pathVars, opVars, diagVars, clientVars, fnVars, cfgVars, driverVars>>

\* the awaited request throws (transport failure): the catch block
BatchCatch ==
    /\ batchPc = "await"
    /\ idx \in inFlight
    /\ inFlight' = inFlight \ {idx}
    /\ answers' = Append(answers, [kind |-> "throw"])
    /\ errors' = push(errors, ThrownEntry(batchOp, items[idx]))
    /\ idx' = idx + 1
    /\ batchPc' = "loop"
    /\ UNCHANGED <<batchOp, items, results, wire, batchRet>>
    /\ UNCHANGED <<pathVars, opVars, diagVars, clientVars, fnVars, cfgVars, driverVars>>

\* the loop is over: the summary is returned
BatchReturn ==
    /\ batchPc = "loop"
    /\ idx > Len(items)
    /\ batchRet' = BatchResult(results, errors, items)
    /\ batchPc' = "done"
    /\ UNCHANGED <<batchOp, items, idx, results, errors, inFlight, wire, answers>>
    /\ UNCHANGED <<pathVars, opVars, diagVars, clientVars, fnVars, cfgVars, driverVars>>

InitBatch == BatchIdle /\ PathIdle /\ OpIdle /\ DiagIdle
    /\ ClientIdle /\ FnIdle /\ CfgIdle /\ DriverIdle

NextBatch ==
    \/ \E op \in {"remove", "copy", "move"} : \E input \in BatchInputs(op) : BatchCall(op, input)
    \/ BatchIssue
    \/ \E status \in BatchStatuses : BatchRespond(status)
    \/ BatchCatch
    \/ BatchReturn

SpecBatch == InitBatch /\ [][NextBatch]_vars

(***************************************************************************)
(* WebDAVResponseParser.  A multi-status body is modelled by what the      *)
(* regular expressions of the parser find in it: the sequence of its       *)
(* <response> elements, each with the text of its <href>, its <propstat>   *)
(* elements in document order and, in each, the status line and the        *)
(* properties present.  A field that is absent from a record stands for    *)
(* undefined / null.                                                       *)
(***************************************************************************)
Has(r, f) == f \in DOMAIN r

\* String.prototype.trim
RECURSIVE trimStart(_)
trimStart(s) == IF s # <<>> /\ Head(s) = " " THEN trimStart(Tail(s)) ELSE s

RECURSIVE trimEnd(_)
trimEnd(s) == IF s # <<>> /\ Last(s) = " " THEN trimEnd(SubSeq(s, 1, Len(s) - 1)) ELSE s

trim(s) == trimEnd(trimStart(s))

\* s.split('/').filter(Boolean)
NonEmptySegments(s) == SelectSeq(Split(s), LAMBDA seg : seg # <<>>)

\* new Date(text).toISOString(), or new Date().toISOString() when that throws
\* or the property is absent
ParseDate(r, f) == IF Has(r, f) /\ r[f] # "invalid" THEN <<"iso", r[f]>> ELSE <<"now">>

\* parseProperties: the item with the parsed properties added
parseProperties(properties, item) ==
    LET isDirectory == Has(properties, "resourcetype")
                         /\ properties.resourcetype = "<d:collection/>"
        lastModified == ParseDate(properties, "getlastmodified")
        displayName == IF Has(properties, "displayname") THEN trim(properties.displayname)
                       ELSE <<>>
    IN  (IF displayName # <<>> /\ (~Has(item, "name") \/ displayName # item.name)
         THEN [displayName |-> displayName, name |-> displayName] ELSE <<>>)
        @@ (IF Has(properties, "getetag")
            THEN [etag |-> SelectSeq(trim(properties.getetag), LAMBDA c : c # "\"")]
            ELSE <<>>)
        @@ (IF Has(properties, "getcontentlength") THEN [size |-> properties.getcontentlength]
            ELSE IF isDirectory THEN [size |-> 0]
            ELSE <<>>)
        @@ [isDirectory |-> isDirectory,
            lastModified |-> lastModified,
            contentType |-> IF Has(properties, "getcontenttype") THEN properties.getcontenttype
                            ELSE IF isDirectory THEN "httpd/unix-directory"
                            ELSE "application/octet-stream",
            creationDate |-> IF Has(properties, "creationdate")
                                  /\ properties.creationdate # "invalid"
                             THEN <<"iso", properties.creationdate>>
                             ELSE lastModified]
        @@ item

\* mutant: an href that cannot be decoded is kept as it was sent
parseResponseItemKeepsRawHref(response) ==
    LET href == IF ~Has(response, "href") THEN <<>>
                ELSE IF decodeURIComponent(trim(response.href)) = URIError
                THEN trim(response.href)
                ELSE decodeURIComponent(trim(response.href))
        pathParts == NonEmptySegments(href)
        item == IF Has(response, "href")
                THEN [href |-> href, path |-> href,
                      name |-> IF pathParts = <<>> THEN <<>> ELSE Last(pathParts)]
                ELSE <<>>
    IN  IF response.propstats = <<>> THEN <<item>>
        ELSE
            LET propstat == response.propstats[1]
            IN  IF Has(propstat, "status") /\ propstat.status # "200" THEN <<>>
                ELSE IF Has(propstat, "prop") THEN <<parseProperties(propstat.prop, item)>>
                ELSE <<item>>

\* parseResponseItem: <<item>>, or <<>> where the code returns null
parseResponseItem(response) ==
    LET href == IF Has(response, "href") THEN decodeURIComponent(trim(response.href))
                ELSE <<>>
        pathParts == NonEmptySegments(href)
        item == IF Has(response, "href")
                THEN [href |-> href, path |-> href,
                      name |-> IF pathParts = <<>> THEN <<>> ELSE Last(pathParts)]
                ELSE <<>>
    IN  IF href = URIError THEN <<>>
        ELSE IF response.propstats = <<>> THEN <<item>>
        ELSE
            LET propstat == response.propstats[1]
            IN  IF Has(propstat, "status") /\ propstat.status # "200" THEN <<>>
                ELSE IF Has(propstat, "prop") THEN <<parseProperties(propstat.prop, item)>>
                ELSE <<item>>

\* parseWebDAVResponse: the items of the <response> elements, in document order
RECURSIVE parseWebDAVResponse(_)
parseWebDAVResponse(xml) ==
    IF xml = <<>> THEN <<>>
    ELSE parseResponseItem(Head(xml)) \o parseWebDAVResponse(Tail(xml))

(***************************************************************************)
(* WebDAVClient.propfind                                                   *)
(***************************************************************************)
AllPropBody == "<D:propfind><D:allprop/></D:propfind>"

PropfindRequest(path, depth) ==
    [method |-> "PROPFIND", path |-> path, Depth |-> depth,
     ContentType |-> "application/xml", body |-> AllPropBody]

(***************************************************************************)
(* HTTPException(ApiStatus.X, { message })                                 *)
(***************************************************************************)
Throw(kind, message) == [kind |-> "throw", error |-> [status |-> kind, message |-> message]]

Return(value) == [kind |-> "return", value |-> value]

\* mutant: request lets the error of fetch through as it is
requestRethrowsRaw ==
    [kind |-> "throw", error |-> [name |-> "TypeError", message |-> <<"fetch failed">>]]

\* what WebDAVClient.request throws on a transport failure; every operation
\* rethrows an HTTPException as it is
RequestFailed == Throw("INTERNAL_ERROR", <<RequestFailedMessage>>)

Thrown == [kind |-> "throw"]

Response(status, body) == [kind |-> "response", status |-> status, body |-> body]

(***************************************************************************)
(* WebDAVFileOperations                                                    *)
(***************************************************************************)
\* _formatFileInfo
formatFileInfo(rawInfo, path) ==
    [name |-> IF Has(rawInfo, "name") /\ rawInfo.name # <<>> THEN rawInfo.name
              ELSE Last(Split(path)),
     path |-> path,
     type |-> IF Has(rawInfo, "isDirectory") /\ rawInfo.isDirectory THEN "directory"
              ELSE "file",
     size |-> IF Has(rawInfo, "size") THEN rawInfo.size ELSE 0,
     lastModified |-> IF Has(rawInfo, "lastModified") THEN rawInfo.lastModified
                      ELSE <<"now">>,
     etag |-> IF Has(rawInfo, "etag") /\ rawInfo.etag # <<>> THEN rawInfo.etag
              ELSE <<"null">>,
     contentType |-> IF Has(rawInfo, "contentType") /\ rawInfo.contentType # ""
                     THEN rawInfo.contentType ELSE "application/octet-stream",
     isDirectory |-> Has(rawInfo, "isDirectory") /\ rawInfo.isDirectory]

\* mutant: the check for an empty parse result is left out, so fileInfo[0] is
\* undefined and the TypeError of _formatFileInfo is wrapped by the catch block
getFileInfoNoEmptyCheck(path, resp) ==
    IF resp = Thrown THEN RequestFailed
    ELSE IF ~ok(resp.status) THEN
        IF resp.status = 404 THEN Throw("NOT_FOUND", <<"file does not exist", path>>)
        ELSE Throw("INTERNAL_ERROR", <<"get file info failed", StatusText(resp.status)>>)
    ELSE IF Has(resp, "broken")
    THEN Throw("INTERNAL_ERROR", <<"get file info failed", "body stream failed">>)
    ELSE
        LET fileInfo == parseWebDAVResponse(resp.body)
        IN  IF fileInfo = <<>>
            THEN Throw("INTERNAL_ERROR", <<"get file info failed", "TypeError">>)
            ELSE Return(formatFileInfo(fileInfo[1], path))

\* getFileInfo after the awaited propfind; a response marked broken is one
\* whose text() rejects
getFileInfoOutcome(path, resp) ==
    IF resp = Thrown THEN RequestFailed
    ELSE IF ~ok(resp.status) THEN
        IF resp.status = 404 THEN Throw("NOT_FOUND", <<"file does not exist", path>>)
        ELSE Throw("INTERNAL_ERROR", <<"get file info failed", StatusText(resp.status)>>)
    ELSE IF Has(resp, "broken")
    THEN Throw("INTERNAL_ERROR", <<"get file info failed", "body stream failed">>)
    ELSE
        LET fileInfo == parseWebDAVResponse(resp.body)
        IN  IF fileInfo = <<>>
            THEN Throw("NOT_FOUND", <<"file does not exist", path>>)
            ELSE Return(formatFileInfo(fileInfo[1], path))

\* mutant: the conflict message names the source instead of the target
renameCopyConflictOnSource(op, source, target, resp) ==
    IF resp = Thrown THEN RequestFailed
    ELSE IF ~ok(resp.status) THEN
        IF resp.status = 404 THEN Throw("NOT_FOUND", <<"source does not exist", source>>)
        ELSE IF resp.status = 409 THEN Throw("CONFLICT", <<"target already exists", source>>)
        ELSE Throw("INTERNAL_ERROR", <<op, "failed", StatusText(resp.status)>>)
    ELSE IF op = "renameItem"
        THEN Return([success |-> TRUE, message |-> "renamed",
                     oldPath |-> source, newPath |-> target])
        ELSE Return([success |-> TRUE, message |-> "copied",
                     sourcePath |-> source, targetPath |-> target])

\* renameItem / copyItem after the awaited move / copy
renameCopyOutcome(op, source, target, resp) ==
    IF resp = Thrown THEN RequestFailed
    ELSE IF ~ok(resp.status) THEN
        IF resp.status = 404 THEN Throw("NOT_FOUND", <<"source does not exist", source>>)
        ELSE IF resp.status = 409 THEN Throw("CONFLICT", <<"target already exists", target>>)
        ELSE Throw("INTERNAL_ERROR", <<op, "failed", StatusText(resp.status)>>)
    ELSE IF op = "renameItem"
        THEN Return([success |-> TRUE, message |-> "renamed",
                     oldPath |-> source, newPath |-> target])
        ELSE Return([success |-> TRUE, message |-> "copied",
                     sourcePath |-> source, targetPath |-> target])

(***************************************************************************)
(* WebDAVDirectoryOperations                                               *)
(***************************************************************************)
ImageExtensions ==
    {<<"j", "p", "g">>, <<"j", "p", "e", "g">>, <<"p", "n", "g">>, <<"g", "i", "f">>,
     <<"b", "m", "p">>, <<"w", "e", "b", "p">>, <<"s", "v", "g">>}

VideoExtensions ==
    {<<"m", "p", "4">>, <<"a", "v", "i">>, <<"m", "k", "v">>, <<"m", "o", "v">>,
     <<"w", "m", "v">>, <<"f", "l", "v">>, <<"w", "e", "b", "m">>}

AudioExtensions ==
    {<<"m", "p", "3">>, <<"w", "a", "v">>, <<"f", "l", "a", "c">>, <<"a", "a", "c">>,
     <<"o", "g", "g">>, <<"w", "m", "a">>}

TextExtensions ==
    {<<"t", "x", "t">>, <<"m", "d">>, <<"j", "s", "o", "n">>, <<"x", "m", "l">>,
     <<"h", "t", "m", "l">>, <<"c", "s", "s">>, <<"j", "s">>, <<"p", "y">>,
     <<"j", "a", "v", "a">>, <<"c", "p", "p">>, <<"c">>}

OfficeExtensions ==
    {<<"d", "o", "c">>, <<"d", "o", "c", "x">>, <<"x", "l", "s">>,
     <<"x", "l", "s", "x">>, <<"p", "p", "t">>, <<"p", "p", "t", "x">>}

DocumentExtensions ==
    {<<"p", "d", "f">>, <<"r", "t", "f">>, <<"o", "d", "t">>, <<"o", "d", "s">>,
     <<"o", "d", "p">>}

\* _getFileType; the names of the model are in lower case already
getFileType(name, isDirectory) ==
    IF isDirectory THEN "FOLDER"
    ELSE
        LET extension == Last(SplitOn(name, "."))
        IN  IF extension \in ImageExtensions THEN "IMAGE"
            ELSE IF extension \in VideoExtensions THEN "VIDEO"
            ELSE IF extension \in AudioExtensions THEN "AUDIO"
            ELSE IF extension \in TextExtensions THEN "TEXT"
            ELSE IF extension \in OfficeExtensions THEN "OFFICE"
            ELSE IF extension \in DocumentExtensions THEN "DOCUMENT"
            ELSE "UNKNOWN"

\* item.href || item.path
HrefOrPath(item) ==
    IF Has(item, "href") /\ item.href # <<>> THEN item.href
    ELSE IF Has(item, "path") THEN item.path
    ELSE <<>>

\* _formatDirectoryItem
formatDirectoryItem(item, parentPath) ==
    LET fromHref == NonEmptySegments(HrefOrPath(item))
        name == IF Has(item, "name") /\ item.name # <<>> THEN item.name
                ELSE IF fromHref # <<>> THEN Last(fromHref)
                ELSE <<>>
        isDirectory == Has(item, "isDirectory") /\ item.isDirectory
        lastModified == IF Has(item, "lastModified") THEN item.lastModified ELSE <<"now">>
    IN  [name |-> name,
         size |-> IF Has(item, "size") THEN item.size ELSE 0,
         is_dir |-> isDirectory,
         modified |-> lastModified,
         created |-> lastModified,
         sign |-> "",
         thumb |-> "",
         type |-> getFileType(name, isDirectory),
         hashinfo |-> "null",
         hash_info |-> "null",
         raw_url |-> "",
         readme |-> "",
         header |-> "",
         provider |-> "WebDAV",
         related |-> "null"]

\* the filter that drops the queried directory itself
IsChildItem(item, path) ==
    normalizeWebDAVPath(HrefOrPath(item), Has(item, "isDirectory") /\ item.isDirectory)
        # normalizeWebDAVPath(path, TRUE)

Listing(content) ==
    [content |-> content, readme |-> "null", header |-> "null", write |-> TRUE,
     provider |-> "WebDAV"]

\* listDirectory after the awaited propfind
listDirectoryOutcome(path, resp) ==
    IF resp = Thrown THEN RequestFailed
    ELSE IF ~ok(resp.status) THEN
        IF resp.status = 404 THEN Throw("NOT_FOUND", <<"directory does not exist", path>>)
        ELSE Throw("INTERNAL_ERROR", <<"list directory failed", StatusText(resp.status)>>)
    ELSE IF Has(resp, "broken")
    THEN Throw("INTERNAL_ERROR", <<"list directory failed", "body stream failed">>)
    ELSE
        LET parsed == parseWebDAVResponse(resp.body)
            childItems == SelectSeq(parsed, LAMBDA item : IsChildItem(item, path))
        IN  IF parsed = <<>> THEN Return(Listing(<<>>))
            ELSE Return(Listing([k \in 1..Len(childItems) |->
                                    formatDirectoryItem(childItems[k], path)]))

(***************************************************************************)
(* WebDAVClient.mkcol / put / head                                         *)
(***************************************************************************)
MkcolRequest(path) == [method |-> "MKCOL", path |-> path]

PutRequest(path, body, headers) ==
    [method |-> "PUT", path |-> path, body |-> body, headers |-> headers]

HeadRequest(path) == [method |-> "HEAD", path |-> path]

(***************************************************************************)
(* WebDAVDirectoryOperations.createDirectory after the awaited mkcol       *)
(***************************************************************************)
\* mutant: the two conflict statuses are tested in one condition, so that 405
\* is reported with the message of 409
createDirectoryOneConflict(path, resp) ==
    IF resp = Thrown THEN RequestFailed
    ELSE IF ~ok(resp.status) THEN
        IF resp.status \in {405, 409}
        THEN Throw("CONFLICT", <<"parent directory does not exist", path>>)
        ELSE Throw("INTERNAL_ERROR", <<"create directory failed", StatusText(resp.status)>>)
    ELSE Return([success |-> TRUE, message |-> "directory created",
                 path |-> path, type |-> "directory"])

createDirectoryOutcome(path, resp) ==
    IF resp = Thrown THEN RequestFailed
    ELSE IF ~ok(resp.status) THEN
        IF resp.status = 405
        THEN Throw("CONFLICT", <<"directory already exists", path>>)
        ELSE IF resp.status = 409
        THEN Throw("CONFLICT", <<"parent directory does not exist", path>>)
        ELSE Throw("INTERNAL_ERROR", <<"create directory failed", StatusText(resp.status)>>)
    ELSE Return([success |-> TRUE, message |-> "directory created",
                 path |-> path, type |-> "directory"])

(***************************************************************************)
(* WebDAVUploadOperations.uploadFile                                       *)
(*                                                                         *)
(* A payload is a record whose field rep names its representation: a File  *)
(* (bytes, type, name; readable says whether arrayBuffer() resolves), an   *)
(* ArrayBuffer or a Buffer (bytes), a string (text, a sequence of code     *)
(* points), or anything else (a stream, a plain object).  A byte is        *)
(* written as its two hex digits.                                          *)
(***************************************************************************)
\* the UTF-8 bytes TextEncoder writes for a code point
Utf8(c) ==
    CASE c = "a" -> <<"61">>
      [] c = "e-acute" -> <<"C3", "A9">>
      [] c = "zhong" -> <<"E4", "B8", "AD">>
      [] c = "emoji" -> <<"F0", "9F", "98", "80">>

\* the UTF-16 code units the code point takes in a JavaScript string
Utf16Units(c) == IF c = "emoji" THEN 2 ELSE 1

\* new TextEncoder().encode(text)
RECURSIVE TextEncode(_)
TextEncode(text) ==
    IF text = <<>> THEN <<>> ELSE Utf8(Head(text)) \o TextEncode(Tail(text))

\* text.length
RECURSIVE StringLength(_)
StringLength(text) ==
    IF text = <<>> THEN 0 ELSE Utf16Units(Head(text)) + StringLength(Tail(text))

\* Number.prototype.toString of a non-negative integer: its decimal digits
RECURSIVE toString(_)
toString(n) ==
    LET digit == <<"0", "1", "2", "3", "4", "5", "6", "7", "8", "9">>[(n % 10) + 1]
    IN  IF n < 10 THEN <<digit>> ELSE Append(toString(n \div 10), digit)

\* mutant: the size of a string payload is its length in UTF-16 code units
stringSizeInChars(text) == StringLength(text)

\* the fileSize of a string payload: the length of the encoded data
stringFileSize(text) == Len(TextEncode(text))

\* uploadFile up to the awaited put: the data, the type, the name and the
\* size taken from the representation, then the headers of the request
uploadPrepare(path, file, options) ==
    LET rep ==
            CASE file.rep = "File" ->
                    [failed |-> ~file.readable,
                     fileData |-> file.bytes,
                     contentType |-> IF file.type # "" THEN file.type
                                     ELSE "application/octet-stream",
                     fileName |-> IF file.name # <<>> THEN file.name ELSE Last(Split(path)),
                     fileSize |-> file.size]
              [] file.rep = "ArrayBuffer" ->
                    [failed |-> FALSE, fileData |-> file.bytes,
                     contentType |-> "application/octet-stream",
                     fileName |-> Last(Split(path)), fileSize |-> file.byteLength]
              [] file.rep = "Buffer" ->
                    [failed |-> FALSE, fileData |-> file.bytes,
                     contentType |-> "application/octet-stream",
                     fileName |-> Last(Split(path)), fileSize |-> file.length]
              [] file.rep = "string" ->
                    [failed |-> FALSE, fileData |-> TextEncode(file.text),
                     contentType |-> "text/plain",
                     fileName |-> Last(Split(path)),
                     fileSize |-> stringFileSize(file.text)]
              [] OTHER ->
                    [failed |-> TRUE, fileData |-> <<>>,
                     contentType |-> "application/octet-stream",
                     fileName |-> Last(Split(path)), fileSize |-> 0]
        contentType == IF Has(options, "contentType") /\ options.contentType # ""
                       THEN options.contentType ELSE rep.contentType
        headers == [ContentType |-> contentType, ContentLength |-> toString(rep.fileSize)]
    IN  [failed |-> rep.failed,
         fileData |-> rep.fileData,
         contentType |-> contentType,
         fileName |-> rep.fileName,
         fileSize |-> rep.fileSize,
         headers |-> IF Has(options, "headers") THEN options.headers @@ headers
                     ELSE headers]

\* mutant: 507 is not told apart from the other failures
uploadOutcomeNo507(path, file, options, resp) ==
    LET prep == uploadPrepare(path, file, options)
    IN  IF prep.failed THEN Throw("INTERNAL_ERROR", <<"upload failed", "Error">>)
        ELSE IF resp = Thrown THEN RequestFailed
        ELSE IF ~ok(resp.status) THEN
            IF resp.status = 409
            THEN Throw("CONFLICT", <<"parent missing or path conflict", path>>)
            ELSE Throw("INTERNAL_ERROR", <<"upload failed", StatusText(resp.status)>>)
        ELSE Return([success |-> TRUE, message |-> "file uploaded", path |-> path,
                     fileName |-> prep.fileName, size |-> prep.fileSize,
                     contentType |-> prep.contentType,
                     etag |-> IF Has(resp.body, "ETag") THEN resp.body.ETag ELSE <<"null">>,
                     lastModified |-> <<"now">>])

\* uploadFile from the awaited put to return or throw; resp.body holds the
\* headers of the response
uploadOutcome(path, file, options, resp) ==
    LET prep == uploadPrepare(path, file, options)
    IN  IF prep.failed THEN Throw("INTERNAL_ERROR", <<"upload failed", "Error">>)
        ELSE IF resp = Thrown THEN RequestFailed
        ELSE IF ~ok(resp.status) THEN
            IF resp.status = 409
            THEN Throw("CONFLICT", <<"parent missing or path conflict", path>>)
            ELSE IF resp.status = 507
            THEN Throw("INTERNAL_ERROR", <<"insufficient storage">>)
            ELSE Throw("INTERNAL_ERROR", <<"upload failed", StatusText(resp.status)>>)
        ELSE Return([success |-> TRUE, message |-> "file uploaded", path |-> path,
                     fileName |-> prep.fileName, size |-> prep.fileSize,
                     contentType |-> prep.contentType,
                     etag |-> IF Has(resp.body, "ETag") THEN resp.body.ETag ELSE <<"null">>,
                     lastModified |-> <<"now">>])

(***************************************************************************)
(* WebDAVFileOperations.downloadFile / updateFile                          *)
(***************************************************************************)
GetRequest(path) == [method |-> "GET", path |-> path]

\* downloadFile after the awaited get: the response itself is returned
downloadOutcome(path, resp) ==
    IF resp = Thrown THEN RequestFailed
    ELSE IF ~ok(resp.status) THEN
        IF resp.status = 404 THEN Throw("NOT_FOUND", <<"file does not exist", path>>)
        ELSE Throw("INTERNAL_ERROR", <<"download failed", StatusText(resp.status)>>)
    ELSE Return(resp)

\* updateFile after the awaited put; the size is content.length
updateOutcome(path, content, resp) ==
    IF resp = Thrown THEN RequestFailed
    ELSE IF ~ok(resp.status)
    THEN Throw("INTERNAL_ERROR", <<"update failed", StatusText(resp.status)>>)
    ELSE Return([success |-> TRUE, message |-> "file updated", path |-> path,
                 size |-> StringLength(content)])

(***************************************************************************)
(* WebDAVStorageDriver.exists and WebDAVFileOperations.exists              *)
(***************************************************************************)
\* what _ensureInitialized throws
NotInitialized == Throw("INTERNAL_ERROR", <<"WebDAV storage driver is not initialized">>)

\* mutant: the exception of the client is rethrown as in the other operations
existsRethrow(resp) ==
    IF resp = Thrown THEN RequestFailed ELSE Return(ok(resp.status))

\* WebDAVFileOperations.exists after the awaited head
existsOutcome(resp) ==
    IF resp = Thrown THEN Return(FALSE) ELSE Return(ok(resp.status))

(***************************************************************************)
(* The server as the operations see it.  A resource at path p of a server  *)
(* whose URL is config.url is reported with the href <path of config.url>  *)
(* followed by p; servers differ in whether a collection href ends with a  *)
(* slash and in the case of the namespace prefix they write (d: or D:).    *)
(***************************************************************************)
BasePaths == {<<>>, <<"/", "v">>}

ListDirs == {<<"/">>, <<"/", "d", "/">>}

InfoPaths == {<<"/", "a", ".", "m", "d">>, <<"/", "d">>}

MovePairs == {[source |-> <<"/", "a", ".", "m", "d">>, target |-> <<"/", "s">>],
              [source |-> <<"/", "s">>, target |-> <<"/", "a", ".", "m", "d">>]}

OpStatuses == {200, 201, 204, 207, 304, 401, 404, 405, 409, 500, 507}

ServerHref(base, path, trailingSlash) ==
    LET full == base \o path
    IN  IF ~trailingSlash /\ Len(full) > 1 /\ endsWith(full, "/")
        THEN SubSeq(full, 1, Len(full) - 1) ELSE full

\* the <response> element of a collection; self marks the queried resource
CollectionElement(href, prefix, self) ==
    [href |-> href,
     propstats |-> <<[status |-> "200",
                      prop |-> [resourcetype |-> IF prefix = "d" THEN "<d:collection/>"
                                                 ELSE "<D:collection/>",
                                getlastmodified |-> "d1"]]>>,
     self |-> self]

\* the <response> element of a file (its <resourcetype/> is empty)
FileElement(href, self) ==
    [href |-> href,
     propstats |-> <<[status |-> "200",
                      prop |-> [getcontentlength |-> 120,
                                getlastmodified |-> "d1",
                                getetag |-> <<"\"", "a", "\"">>]]>>,
     self |-> self]

\* a <response> element whose only propstat is a 404
MissingElement(href, self) ==
    [href |-> href, propstats |-> <<[status |-> "404"]>>, self |-> self]

ChildLists == {<<>>, <<"s">>, <<"a.md">>, <<"s", "a.md">>}

ChildElement(base, dir, child, trailingSlash, prefix) ==
    IF child = "s"
    THEN CollectionElement(ServerHref(base, dir \o <<"s", "/">>, trailingSlash), prefix, FALSE)
    ELSE FileElement(base \o dir \o <<"a", ".", "m", "d">>, FALSE)

\* the depth-1 answers for a directory: the directory itself, then its children
ListingDocuments(base, dir) ==
    {<<CollectionElement(ServerHref(base, dir, trailingSlash), prefix, TRUE)>>
        \o [k \in 1..Len(kids) |-> ChildElement(base, dir, kids[k], trailingSlash, prefix)] :
        <<trailingSlash, prefix, kids>> \in BOOLEAN \X {"d", "D"} \X ChildLists}

\* the depth-0 answers for a path: nothing, a propstat 404, a file, a collection
InfoDocuments(base, path) ==
    {<<>>,
     <<MissingElement(base \o path, TRUE)>>,
     <<FileElement(base \o path, TRUE)>>}
    \cup {<<CollectionElement(ServerHref(base, path \o <<"/">>, trailingSlash), prefix, TRUE)>> :
            <<trailingSlash, prefix>> \in BOOLEAN \X {"d", "D"}}

\* the directories created, the paths uploaded to and the paths probed
NewDirs == {<<"/", "d", "/">>, <<"/", "d", "/", "s", "/">>}

UploadPaths == {<<"/", "a", ".", "m", "d">>, <<"/", "d", "/", "s">>}

ExistsPaths == {<<"/", "a", ".", "m", "d">>, <<"d", "/">>}

CodePoints == {"a", "e-acute", "zhong", "emoji"}

ByteSeqs == {<<>>, <<"F0", "9F">>}

\* the payloads handed to uploadFile; the size of a File, an ArrayBuffer or a
\* Buffer is the number of its bytes
UploadPayloads ==
    {[rep |-> "File", bytes |-> b, size |-> Len(b), type |-> t, name |-> n, readable |-> r] :
        <<b, t, n, r>> \in ByteSeqs \X {"", "image/png"} \X {<<>>, <<"s">>} \X BOOLEAN}
    \cup {[rep |-> "ArrayBuffer", bytes |-> b, byteLength |-> Len(b)] : b \in ByteSeqs}
    \cup {[rep |-> "Buffer", bytes |-> b, length |-> Len(b)] : b \in ByteSeqs}
    \cup {[rep |-> "string", text |-> t] : t \in SeqsUpTo(CodePoints, MaxText)}
    \cup {[rep |-> "stream"]}

\* the options handed to uploadFile
UploadOptions(path) ==
    {[subPath |-> path],
     [subPath |-> path, contentType |-> ""],
     [subPath |-> path, contentType |-> "text/markdown"],
     [subPath |-> path, headers |-> [XTag |-> "t"]],
     [subPath |-> path, contentType |-> "text/markdown",
      headers |-> [ContentType |-> "x/custom", ContentLength |-> <<"0">>]]}

\* the headers of an answer to PUT: servers may or may not send an entity tag
PutResponseHeaders == {[Date |-> "d1"], [Date |-> "d1", ETag |-> <<"\"", "a", "\"">>]}

DownloadPaths == {<<"/", "a", ".", "m", "d">>}

\* the contents handed to updateFile, and its options
UpdateContents == {<<>>, <<"a">>, <<"a", "zhong">>, <<"emoji">>}

UpdateOptions(path) == {[subPath |-> path], [subPath |-> path, contentType |-> "text/markdown"]}

\* the bodies a response to the awaited request can carry
Bodies(name, args, status) ==
    IF name = "uploadFile" THEN PutResponseHeaders
    ELSE IF ~ok(status) THEN {<<>>}
    ELSE IF name = "getFileInfo" THEN InfoDocuments(args.base, args.path)
    ELSE IF name = "listDirectory" THEN ListingDocuments(args.base, args.path)
    ELSE {<<>>}

(***************************************************************************)
(* A single-item operation as a machine: the call issues its request and   *)
(* awaits it; the request resolves with a response or throws.              *)
(***************************************************************************)
GetFileInfoCall(base, path) ==
    /\ opPc = "idle"
    /\ opName' = "getFileInfo"
    /\ opArgs' = [base |-> base, path |-> path]
    /\ opWire' = Append(opWire, PropfindRequest(path, "0"))
    /\ opPc' = "await"
    /\ UNCHANGED <<opResp, opOut, initialized>>
    /\ UNCHANGED <<pathVars, batchVars, diagVars, clientVars, fnVars, cfgVars, driverVars>>

RenameItemCall(oldPath, newPath) ==
    /\ opPc = "idle"
    /\ opName' = "renameItem"
    /\ opArgs' = [source |-> oldPath, target |-> newPath]
    /\ opWire' = Append(opWire, MoveRequest(oldPath, newPath))
    /\ opPc' = "await"
    /\ UNCHANGED <<opResp, opOut, initialized>>
    /\ UNCHANGED <<pathVars, batchVars, diagVars, clientVars, fnVars, cfgVars, driverVars>>

CopyItemCall(sourcePath, targetPath) ==
    /\ opPc = "idle"
    /\ opName' = "copyItem"
    /\ opArgs' = [source |-> sourcePath, target |-> targetPath]
    /\ opWire' = Append(opWire, CopyRequest(sourcePath, targetPath))
    /\ opPc' = "await"
    /\ UNCHANGED <<opResp, opOut, initialized>>
    /\ UNCHANGED <<pathVars, batchVars, diagVars, clientVars, fnVars, cfgVars, driverVars>>

ListDirectoryCall(base, path) ==
    /\ opPc = "idle"
    /\ opName' = "listDirectory"
    /\ opArgs' = [base |-> base, path |-> path]
    /\ opWire' = Append(opWire, PropfindRequest(path, "1"))
    /\ opPc' = "await"
    /\ UNCHANGED <<opResp, opOut, initialized>>
    /\ UNCHANGED <<pathVars, batchVars, diagVars, clientVars, fnVars, cfgVars, driverVars>>

CreateDirectoryCall(path) ==
    /\ opPc = "idle"
    /\ opName' = "createDirectory"
    /\ opArgs' = [path |-> path]
    /\ opWire' = Append(opWire, MkcolRequest(path))
    /\ opPc' = "await"
    /\ UNCHANGED <<opResp, opOut, initialized>>
    /\ UNCHANGED <<pathVars, batchVars, diagVars, clientVars, fnVars, cfgVars, driverVars>>

\* uploadFile: a payload that cannot be read or is of no supported kind ends
\* the call before any request is made
UploadFileCall(path, file, options) ==
    LET prep == uploadPrepare(path, file, options)
    IN  /\ opPc = "idle"
        /\ opName' = "uploadFile"
        /\ opArgs' = [path |-> path, file |-> file, options |-> options]
        /\ IF prep.failed
           THEN /\ opOut' = uploadOutcome(path, file, options, None)
                /\ opPc' = "done"
                /\ UNCHANGED opWire
           ELSE /\ opWire' = Append(opWire, PutRequest(path, prep.fileData, prep.headers))
                /\ opPc' = "await"
                /\ UNCHANGED opOut
        /\ UNCHANGED <<opResp, initialized>>
        /\ UNCHANGED <<pathVars, batchVars, diagVars, clientVars, fnVars, cfgVars, driverVars>>

\* the driver's initialize: it sets the flag when the client could be built
\* and throws without touching the flag otherwise
\* initialize(): built says whether createWebDAVClient returned a client; the
\* flag is set after the client and the modules are built, inside the try
\* block, and the catch block raises without touching the flag
Initialize(built) ==
    /\ opPc = "idle"
    /\ webdavClient' = IF built THEN [kind |-> "WebDAVClient"] ELSE webdavClient
    /\ initialized' = (initialized \/ built)
    /\ UNCHANGED <<opName, opArgs, opPc, opWire, opResp, opOut>>
    /\ UNCHANGED <<pathVars, batchVars, diagVars, clientVars, fnVars, cfgVars>>

ExistsCall(path) ==
    /\ opPc = "idle"
    /\ opName' = "exists"
    /\ opArgs' = [path |-> path]
    /\ IF ~initialized
       THEN /\ opOut' = NotInitialized
            /\ opPc' = "done"
            /\ UNCHANGED opWire
       ELSE /\ opWire' = Append(opWire, HeadRequest(normalizeWebDAVPath(path, FALSE)))
            /\ opPc' = "await"
            /\ UNCHANGED opOut
    /\ UNCHANGED <<opResp, initialized>>
    /\ UNCHANGED <<pathVars, batchVars, diagVars, clientVars, fnVars, cfgVars, driverVars>>

DownloadFileCall(path) ==
    /\ opPc = "idle"
    /\ opName' = "downloadFile"
    /\ opArgs' = [path |-> path]
    /\ opWire' = Append(opWire, GetRequest(path))
    /\ opPc' = "await"
    /\ UNCHANGED <<opResp, opOut, initialized>>
    /\ UNCHANGED <<pathVars, batchVars, diagVars, clientVars, fnVars, cfgVars, driverVars>>

\* updateFile: fetch sends a string body in UTF-8
UpdateFileCall(path, content, options) ==
    /\ opPc = "idle"
    /\ opName' = "updateFile"
    /\ opArgs' = [path |-> path, content |-> content, options |-> options]
    /\ opWire' = Append(opWire,
                    PutRequest(path, TextEncode(content),
                               [ContentType |-> IF Has(options, "contentType")
                                                     /\ options.contentType # ""
                                                 THEN options.contentType
                                                 ELSE "text/plain"]))
    /\ opPc' = "await"
    /\ UNCHANGED <<opResp, opOut, initialized>>
    /\ UNCHANGED <<pathVars, batchVars, diagVars, clientVars, fnVars, cfgVars, driverVars>>

(***************************************************************************)
(* The operations WebDAV does not offer: each one throws at once.          *)
(***************************************************************************)
UnsupportedOps == {"generatePresignedUrl", "handleCrossStorageCopy",
                   "abortBackendMultipartUpload"}

UnsupportedMessage(name) ==
    CASE name = "generatePresignedUrl" -> "WebDAV storage does not support presigned URLs"
      [] name = "handleCrossStorageCopy" ->
            "WebDAV storage does not support cross-storage copy"
      [] name = "abortBackendMultipartUpload" ->
            "WebDAV storage does not support multipart upload"

Unsupported(name) == Throw("BAD_REQUEST", <<UnsupportedMessage(name)>>)

\* mutant: the method checks the driver first, as the supported ones do
GeneratePresignedUrlEnsured(path) ==
    /\ opPc = "idle"
    /\ opName' = "generatePresignedUrl"
    /\ opArgs' = [path |-> path]
    /\ opOut' = IF initialized THEN Unsupported("generatePresignedUrl") ELSE NotInitialized
    /\ opPc' = "done"
    /\ UNCHANGED <<opWire, opResp, initialized>>
    /\ UNCHANGED <<pathVars, batchVars, diagVars, clientVars, fnVars, cfgVars, driverVars>>

GeneratePresignedUrlCall(path) ==
    /\ opPc = "idle"
    /\ opName' = "generatePresignedUrl"
    /\ opArgs' = [path |-> path]
    /\ opOut' = Unsupported("generatePresignedUrl")
    /\ opPc' = "done"
    /\ UNCHANGED <<opWire, opResp, initialized>>
    /\ UNCHANGED <<pathVars, batchVars, diagVars, clientVars, fnVars, cfgVars, driverVars>>

HandleCrossStorageCopyCall(sourcePath, targetPath) ==
    /\ opPc = "idle"
    /\ opName' = "handleCrossStorageCopy"
    /\ opArgs' = [source |-> sourcePath, target |-> targetPath]
    /\ opOut' = Unsupported("handleCrossStorageCopy")
    /\ opPc' = "done"
    /\ UNCHANGED <<opWire, opResp, initialized>>
    /\ UNCHANGED <<pathVars, batchVars, diagVars, clientVars, fnVars, cfgVars, driverVars>>

AbortBackendMultipartUploadCall(path) ==
    /\ opPc = "idle"
    /\ opName' = "abortBackendMultipartUpload"
    /\ opArgs' = [path |-> path]
    /\ opOut' = Unsupported("abortBackendMultipartUpload")
    /\ opPc' = "done"
    /\ UNCHANGED <<opWire, opResp, initialized>>
    /\ UNCHANGED <<pathVars, batchVars, diagVars, clientVars, fnVars, cfgVars, driverVars>>

\* the rest of the operation, from the awaited request to return or throw
Outcome(name, args, resp) ==
    CASE name = "getFileInfo" -> getFileInfoOutcome(args.path, resp)
      [] name = "createDirectory" -> createDirectoryOutcome(args.path, resp)
      [] name = "uploadFile" -> uploadOutcome(args.path, args.file, args.options, resp)
      [] name = "exists" -> existsOutcome(resp)
      [] name = "downloadFile" -> downloadOutcome(args.path, resp)
      [] name = "updateFile" -> updateOutcome(args.path, args.content, resp)
      [] name \in {"renameItem", "copyItem"} ->
            renameCopyOutcome(name, args.source, args.target, resp)
      [] name = "listDirectory" -> listDirectoryOutcome(args.path, resp)

OpRespond(status) ==
    /\ opPc = "await"
    /\ \E body \in Bodies(opName, opArgs, status) :
          /\ opResp' = Response(status, body)
          /\ opOut' = Outcome(opName, opArgs, Response(status, body))
    /\ opPc' = "done"
    /\ UNCHANGED <<opName, opArgs, opWire, initialized>>
    /\ UNCHANGED <<pathVars, batchVars, diagVars, clientVars, fnVars, cfgVars, driverVars>>

\* the request is answered 2xx, and reading the body (response.text()) fails
OpBodyFails(status) ==
    /\ opPc = "await"
    /\ opName \in {"getFileInfo", "listDirectory"}
    /\ ok(status)
    /\ opResp' = [broken |-> TRUE] @@ Response(status, <<>>)
    /\ opOut' = Outcome(opName, opArgs, [broken |-> TRUE] @@ Response(status, <<>>))
    /\ opPc' = "done"
    /\ UNCHANGED <<opName, opArgs, opWire, initialized>>
    /\ UNCHANGED <<pathVars, batchVars, diagVars, clientVars, fnVars, cfgVars, driverVars>>

OpThrow ==
    /\ opPc = "await"
    /\ opResp' = Thrown
    /\ opOut' = Outcome(opName, opArgs, Thrown)
    /\ opPc' = "done"
    /\ UNCHANGED <<opName, opArgs, opWire, initialized>>
    /\ UNCHANGED <<pathVars, batchVars, diagVars, clientVars, fnVars, cfgVars, driverVars>>

InitOps == OpIdle /\ PathIdle /\ BatchIdle /\ DiagIdle
    /\ ClientIdle /\ FnIdle /\ CfgIdle /\ DriverIdle

NextOps ==
    \/ \E base \in BasePaths : \E path \in InfoPaths : GetFileInfoCall(base, path)
    \/ \E pair \in MovePairs : RenameItemCall(pair.source, pair.target)
    \/ \E pair \in MovePairs : CopyItemCall(pair.source, pair.target)
    \/ \E base \in BasePaths : \E path \in ListDirs : ListDirectoryCall(base, path)
    \/ \E path \in NewDirs : CreateDirectoryCall(path)
    \/ \E path \in UploadPaths : \E file \in UploadPayloads :
          \E options \in UploadOptions(path) : UploadFileCall(path, file, options)
    \/ \E built \in BOOLEAN : Initialize(built)
    \/ \E path \in ExistsPaths : ExistsCall(path)
    \/ \E path \in InfoPaths : GeneratePresignedUrlCall(path)
    \/ \E pair \in MovePairs : HandleCrossStorageCopyCall(pair.source, pair.target)
    \/ \E path \in UploadPaths : AbortBackendMultipartUploadCall(path)
    \/ \E path \in DownloadPaths : DownloadFileCall(path)
    \/ \E path \in UploadPaths : \E content \in UpdateContents :
          \E options \in UpdateOptions(path) : UpdateFileCall(path, content, options)
    \/ \E status \in OpStatuses : OpRespond(status)
    \/ \E status \in OpStatuses : OpBodyFails(status)
    \/ OpThrow

SpecOps == InitOps /\ [][NextOps]_vars

(***************************************************************************)
(* WebDAVStorageDriver: the capability methods of the facade.  Each one    *)
(* calls _ensureInitialized first (list, get, getInfo, stat, put, mkdir,   *)
(* rename, move and copy through the method they forward to), normalizes   *)
(* its paths and delegates to an operation module.  The options of the     *)
(* model carry no database handle, so listDirectory does not write the     *)
(* mount's last-used time.                                                 *)
(***************************************************************************)
\* mutant: the guard lets every call through
ensureInitializedSkipped(flag) == None

\* _ensureInitialized: what it throws, or None when it returns
ensureInitialized(flag) == IF ~flag THEN NotInitialized ELSE None

CapabilityMethods ==
    {"list", "get", "getInfo", "stat", "put", "mkdir", "rename", "move", "copy",
     "batchRemoveItems", "batchCopyItems", "updateFile", "exists", "getStats"}

\* the paths handed to the facade, as the mount layer passes them
FacadePaths == {<<"a", ".", "m", "d">>, <<"/", "d", "/", "/", "s">>}

FacadeOptions == {[subPath |-> path] : path \in FacadePaths}

FacadePathLists == {<<>>, <<<<"a">>>>, <<<<"a">>, <<"/", "b", "/">>>>}

FacadePairLists ==
    {<<>>,
     <<[sourcePath |-> <<"a">>, targetPath |-> <<"/", "b", "/">>]>>,
     <<[sourcePath |-> <<"a">>, targetPath |-> <<"/", "b", "/">>],
       [sourcePath |-> <<"/", "b">>, targetPath |-> <<"c">>]>>}

FacadeIdle == opPc = "idle" /\ batchPc = "idle"

\* the method named name ends in the exception of _ensureInitialized
Refuse(name) ==
    /\ opName' = name
    /\ opOut' = ensureInitialized(initialized)
    /\ opPc' = "done"
    /\ UNCHANGED <<opArgs, opWire, opResp, initialized>>
    /\ UNCHANGED <<pathVars, batchVars, diagVars, clientVars, fnVars, cfgVars, driverVars>>

\* list -> listDirectory
FacadeListDirectory(name, base, options) ==
    /\ FacadeIdle
    /\ IF ensureInitialized(initialized) # None THEN Refuse(name)
       ELSE ListDirectoryCall(base, normalizeWebDAVPath(options.subPath, TRUE))

\* getInfo, stat -> getFileInfo
FacadeGetFileInfo(name, base, options) ==
    /\ FacadeIdle
    /\ IF ensureInitialized(initialized) # None THEN Refuse(name)
       ELSE GetFileInfoCall(base, normalizeWebDAVPath(options.subPath, FALSE))

\* get -> downloadFile
FacadeDownloadFile(name, options) ==
    /\ FacadeIdle
    /\ IF ensureInitialized(initialized) # None THEN Refuse(name)
       ELSE DownloadFileCall(normalizeWebDAVPath(options.subPath, FALSE))

\* put -> uploadFile
FacadeUploadFile(name, file, options) ==
    /\ FacadeIdle
    /\ IF ensureInitialized(initialized) # None THEN Refuse(name)
       ELSE UploadFileCall(normalizeWebDAVPath(options.subPath, FALSE), file, options)

\* mkdir -> createDirectory
FacadeCreateDirectory(name, options) ==
    /\ FacadeIdle
    /\ IF ensureInitialized(initialized) # None THEN Refuse(name)
       ELSE CreateDirectoryCall(normalizeWebDAVPath(options.subPath, TRUE))

\* rename, move -> renameItem
FacadeRenameItem(name, oldPath, newPath) ==
    /\ FacadeIdle
    /\ IF ensureInitialized(initialized) # None THEN Refuse(name)
       ELSE RenameItemCall(normalizeWebDAVPath(oldPath, FALSE),
                           normalizeWebDAVPath(newPath, FALSE))

\* copy -> copyItem
FacadeCopyItem(name, sourcePath, targetPath) ==
    /\ FacadeIdle
    /\ IF ensureInitialized(initialized) # None THEN Refuse(name)
       ELSE CopyItemCall(normalizeWebDAVPath(sourcePath, FALSE),
                         normalizeWebDAVPath(targetPath, FALSE))

FacadeUpdateFile(path, content, options) ==
    /\ FacadeIdle
    /\ IF ensureInitialized(initialized) # None THEN Refuse("updateFile")
       ELSE UpdateFileCall(normalizeWebDAVPath(path, FALSE), content, options)

FacadeExists(path) ==
    /\ FacadeIdle
    /\ IF ensureInitialized(initialized) # None THEN Refuse("exists")
       ELSE ExistsCall(path)

FacadeBatchRemoveItems(paths) ==
    /\ FacadeIdle
    /\ IF ensureInitialized(initialized) # None THEN Refuse("batchRemoveItems")
       ELSE BatchCall("remove",
                      [k \in 1..Len(paths) |-> normalizeWebDAVPath(paths[k], FALSE)])

FacadeBatchCopyItems(pairs) ==
    /\ FacadeIdle
    /\ IF ensureInitialized(initialized) # None THEN Refuse("batchCopyItems")
       ELSE BatchCall("copy",
                      [k \in 1..Len(pairs) |->
                          [sourcePath |-> normalizeWebDAVPath(pairs[k].sourcePath, FALSE),
                           targetPath |-> normalizeWebDAVPath(pairs[k].targetPath, FALSE)]])

\* getStats: no request, the description of the driver
FacadeGetStats ==
    /\ FacadeIdle
    /\ IF ensureInitialized(initialized) # None THEN Refuse("getStats")
       ELSE /\ opName' = "getStats"
            /\ opOut' = Return([type |-> "WebDAV",
                                capabilities |-> <<"READER", "WRITER", "ATOMIC">>,
                                initialized |-> initialized])
            /\ opPc' = "done"
            /\ UNCHANGED <<opArgs, opWire, opResp, initialized>>
            /\ UNCHANGED <<pathVars, batchVars, diagVars, clientVars, fnVars, cfgVars,
                           driverVars>>

InitFacade == OpIdle /\ PathIdle /\ BatchIdle /\ DiagIdle
    /\ ClientIdle /\ FnIdle /\ CfgIdle /\ DriverIdle

NextFacade ==
    \/ \E built \in BOOLEAN : Initialize(built)
    \/ \E base \in BasePaths : \E options \in FacadeOptions :
          FacadeListDirectory("list", base, options)
    \/ \E name \in {"getInfo", "stat"} : \E base \in BasePaths : \E options \in FacadeOptions :
          FacadeGetFileInfo(name, base, options)
    \/ \E options \in FacadeOptions : FacadeDownloadFile("get", options)
    \/ \E file \in {[rep |-> "string", text |-> <<"a", "zhong">>], [rep |-> "stream"]} :
          \E options \in FacadeOptions : FacadeUploadFile("put", file, options)
    \/ \E options \in FacadeOptions : FacadeCreateDirectory("mkdir", options)
    \/ \E name \in {"rename", "move"} : \E oldPath \in FacadePaths : \E newPath \in FacadePaths :
          FacadeRenameItem(name, oldPath, newPath)
    \/ \E sourcePath \in FacadePaths : \E targetPath \in FacadePaths :
          FacadeCopyItem("copy", sourcePath, targetPath)
    \/ \E path \in FacadePaths : \E content \in UpdateContents :
          FacadeUpdateFile(path, content, [subPath |-> path])
    \/ \E path \in FacadePaths : FacadeExists(path)
    \/ \E paths \in FacadePathLists : FacadeBatchRemoveItems(paths)
    \/ \E pairs \in FacadePairLists : FacadeBatchCopyItems(pairs)
    \/ FacadeGetStats
    \/ \E status \in OpStatuses : OpRespond(status)
    \/ \E status \in OpStatuses : OpBodyFails(status)
    \/ OpThrow
    \/ BatchIssue
    \/ \E status \in BatchStatuses : BatchRespond(status)
    \/ BatchCatch
    \/ BatchReturn

SpecFacade == InitFacade /\ [][NextFacade]_vars

(***************************************************************************)
(* testWebDAVConnection: the connection test of a stored configuration.    *)
(*                                                                         *)
(* A URL or a folder is a sequence of pieces ("https://h" is one piece).   *)
(* A timeout that is not set is 0.  A stage meets a response, or an error  *)
(* thrown by fetch (a transport failure, the timeout of its AbortSignal),  *)
(* or an error before the request: btoa throws on a credential with a      *)
(* character outside Latin-1.                                              *)
(***************************************************************************)
Stages == <<"connect", "auth", "read", "write">>

Latin1Credentials == {"admin", "secret"}

DiagConfigs ==
    {[server_url |-> u, default_folder |-> f, connection_timeout |-> 0, read_timeout |-> 0,
      username |-> "admin", password |-> "secret"] :
        <<u, f>> \in {<<"https://h">>, <<"https://h", "/">>} \X {<<>>, <<"d">>}}
    \cup {[server_url |-> <<"https://h">>, default_folder |-> <<"/", "d">>,
           connection_timeout |-> 5, read_timeout |-> 9,
           username |-> "admin", password |-> "secret"],
          [server_url |-> <<"https://h">>, default_folder |-> <<>>,
           connection_timeout |-> 0, read_timeout |-> 0,
           username |-> "wang-in-han", password |-> "secret"]}

DiagStatuses == {200, 207, 401, 404, 500}

FetchFailed == [kind |-> "error", name |-> "TypeError", message |-> <<"fetch failed">>]

TimedOut ==
    [kind |-> "error", name |-> "TimeoutError",
     message |-> <<"The operation was aborted due to timeout">>]

InvalidCharacter ==
    [kind |-> "error", name |-> "InvalidCharacterError", message |-> <<"Invalid character">>]

\* the texts response.text() can give for the listing of the read stage, as
\* the opening tags of its <response> elements; Unreadable: text() rejects
Unreadable == <<"unreadable">>

ReadBodies ==
    {Unreadable, <<>>, <<"<D:response>", "<D:response>", "<D:response>">>,
     <<"<d:response>", "<d:response>">>}

DiagOutcomes ==
    {[kind |-> "response", status |-> s, body |-> <<>>] : s \in DiagStatuses}
    \cup {FetchFailed, TimedOut}

ReadOutcomes ==
    {[kind |-> "response", status |-> s, body |-> b] :
        <<s, b>> \in {s \in DiagStatuses : ok(s)} \X ReadBodies}
    \cup {o \in DiagOutcomes : o.kind = "error" \/ ~ok(o.status)}

\* `Basic ${btoa(`${username}:${password}`)}`
btoaThrows(config) ==
    config.username \notin Latin1Credentials \/ config.password \notin Latin1Credentials

\* what a stage meets: the error of btoa, or what fetch gives
Met(config, outcome) == IF btoaThrows(config) THEN InvalidCharacter ELSE outcome

\* config.server_url without its trailing slash
ServerUrl(config) ==
    IF endsWith(config.server_url, "/")
    THEN SubSeq(config.server_url, 1, Len(config.server_url) - 1)
    ELSE config.server_url

\* testPath of the auth and the read stage
TestPath(config) ==
    IF config.default_folder # <<>>
    THEN IF startsWith(config.default_folder, "/") THEN config.default_folder
         ELSE <<"/">> \o config.default_folder
    ELSE <<"/">>

ProbeFileName == <<"__cloudpaste_test_", "timestamp", ".txt">>

\* testPath of the write stage
ProbePath(config) ==
    IF config.default_folder # <<>>
    THEN IF startsWith(config.default_folder, "/")
         THEN config.default_folder \o <<"/">> \o ProbeFileName
         ELSE <<"/">> \o config.default_folder \o <<"/">> \o ProbeFileName
    ELSE <<"/">> \o ProbeFileName

\* AbortSignal.timeout((value || fallback) * 1000)
TimeoutMs(value, fallback) == (IF value # 0 THEN value ELSE fallback) * 1000

DiagRequest(method, url, timeout) == [method |-> method, url |-> url, timeout |-> timeout]

ConnectRequest(config) ==
    DiagRequest("OPTIONS", ServerUrl(config) \o <<"/">>,
                TimeoutMs(config.connection_timeout, 30))

AuthRequest(config) ==
    [Depth |-> "0"] @@ DiagRequest("PROPFIND", ServerUrl(config) \o TestPath(config),
                                  TimeoutMs(config.connection_timeout, 30))

ReadRequest(config) ==
    [Depth |-> "1"] @@ DiagRequest("PROPFIND", ServerUrl(config) \o TestPath(config),
                                  TimeoutMs(config.read_timeout, 60))

ProbePutRequest(config) ==
    DiagRequest("PUT", ServerUrl(config) \o ProbePath(config),
                TimeoutMs(config.read_timeout, 60))

ProbeDeleteRequest(config) ==
    DiagRequest("DELETE", ServerUrl(config) \o ProbePath(config),
                TimeoutMs(config.connection_timeout, 30))

\* the testResult object the stages fill in (connectionInfo is left out: no
\* stage reads or writes it)
InitialTestResult ==
    [connect |-> [success |-> FALSE, error |-> <<>>, note |-> "testing the connection to the server"],
     auth |-> [success |-> FALSE, error |-> <<>>, note |-> "testing the authentication"],
     read |-> [success |-> FALSE, error |-> <<>>, note |-> "testing the read permission"],
     write |-> [success |-> FALSE, error |-> <<>>, note |-> "testing the write permission"]]

HttpError(status) == <<"HTTP", StatusText(status)>>

\* mutant: only a 2xx answer counts as a connection
connectTestOkOnly(result, met) ==
    IF met.kind = "response" THEN
        IF ok(met.status)
        THEN [success |-> TRUE, statusCode |-> met.status, note |-> "server reachable"]
                @@ result
        ELSE [success |-> FALSE, statusCode |-> met.status, error |-> HttpError(met.status)]
                @@ result
    ELSE [success |-> FALSE, error |-> met.message]
            @@ (IF met.name = "TimeoutError" THEN [note |-> "connection timed out"] @@ result
                ELSE result)

\* executeWebDAVConnectTest: testResult.connect after the stage
executeWebDAVConnectTest(result, met) ==
    IF met.kind = "response" THEN
        IF ok(met.status) \/ met.status = 401
        THEN [success |-> TRUE, statusCode |-> met.status, note |-> "server reachable"]
                @@ result
        ELSE [success |-> FALSE, statusCode |-> met.status, error |-> HttpError(met.status)]
                @@ result
    ELSE [success |-> FALSE, error |-> met.message]
            @@ (IF met.name = "TimeoutError" THEN [note |-> "connection timed out"] @@ result
                ELSE result)

\* executeWebDAVAuthTest: testResult.auth after the stage
executeWebDAVAuthTest(result, met) ==
    IF met.kind = "response" THEN
        IF ok(met.status)
        THEN [success |-> TRUE, statusCode |-> met.status, note |-> "authenticated"] @@ result
        ELSE IF met.status = 401
        THEN [success |-> FALSE, statusCode |-> met.status,
              error |-> <<"authentication failed">>] @@ result
        ELSE [success |-> FALSE, statusCode |-> met.status, error |-> HttpError(met.status)]
                @@ result
    ELSE [success |-> FALSE, error |-> met.message] @@ result

\* (responseText.match(/<D:response>/g) || []).length
ResponseTags(text) == Len(SelectSeq(text, LAMBDA tag : tag = "<D:response>"))

\* executeWebDAVReadTest: testResult.read after the stage
executeWebDAVReadTest(result, met) ==
    IF met.kind = "response" THEN
        IF ok(met.status)
        THEN IF met.body = Unreadable
             THEN [success |-> TRUE, statusCode |-> met.status,
                   note |-> "readable, but the listing could not be parsed"] @@ result
             ELSE [success |-> TRUE, statusCode |-> met.status, note |-> "readable",
                   fileCount |-> IF ResponseTags(met.body) - 1 > 0
                                 THEN ResponseTags(met.body) - 1 ELSE 0] @@ result
        ELSE [success |-> FALSE, statusCode |-> met.status, error |-> HttpError(met.status)]
                @@ result
    ELSE [success |-> FALSE, error |-> met.message] @@ result

\* executeWebDAVWriteTest up to the cleanup: testResult.write after the PUT
executeWebDAVWriteTest(result, met, testPath) ==
    IF met.kind = "response" THEN
        IF ok(met.status) \/ met.status = 201
        THEN [success |-> TRUE, statusCode |-> met.status, uploadTime |-> "ms",
              testFile |-> testPath, note |-> "writable"] @@ result
        ELSE [success |-> FALSE, statusCode |-> met.status, error |-> HttpError(met.status)]
                @@ result
    ELSE [success |-> FALSE, error |-> met.message] @@ result

\* mutant: the DELETE is not in a try block of its own, so that its error is
\* caught by the catch block of the stage
cleanupInOuterTry(result, met) ==
    IF met.kind = "response" THEN [cleaned |-> ok(met.status)] @@ result
    ELSE [success |-> FALSE, error |-> met.message] @@ result

\* the cleanup of executeWebDAVWriteTest: testResult.write after the DELETE
cleanupProbe(result, met) ==
    IF met.kind = "response" THEN [cleaned |-> ok(met.status)] @@ result
    ELSE [cleaned |-> FALSE, cleanupError |-> met.message] @@ result

\* mutant: the write stage gates the overall success as well
summaryWriteGates(result) ==
    [overallSuccess |-> result.connect.success /\ result.auth.success
                            /\ result.read.success /\ result.write.success,
     message |->
        IF result.connect.success THEN
            IF result.auth.success THEN
                IF result.read.success THEN
                    IF result.write.success THEN "success: connect, auth, read and write"
                    ELSE "partial success: connect, auth and read; write unavailable"
                ELSE "partial success: connect and auth; read unavailable"
            ELSE "failure: connected, authentication failed"
        ELSE "failure: cannot connect to the server"]

\* mutant: the message is chosen without looking at the read stage
summaryNoReadBranch(result) ==
    [overallSuccess |-> result.connect.success /\ result.auth.success /\ result.read.success,
     message |->
        IF result.connect.success THEN
            IF result.auth.success THEN
                IF result.write.success THEN "success: connect, auth, read and write"
                ELSE "partial success: connect, auth and read; write unavailable"
            ELSE "failure: connected, authentication failed"
        ELSE "failure: cannot connect to the server"]

generateWebDAVTestSummary(result) ==
    [overallSuccess |-> result.connect.success /\ result.auth.success /\ result.read.success,
     message |->
        IF result.connect.success THEN
            IF result.auth.success THEN
                IF result.read.success THEN
                    IF result.write.success THEN "success: connect, auth, read and write"
                    ELSE "partial success: connect, auth and read; write unavailable"
                ELSE "partial success: connect and auth; read unavailable"
            ELSE "failure: connected, authentication failed"
        ELSE "failure: cannot connect to the server"]

\* an exception that is no HTTPException
RawError(message) == [kind |-> "throw", error |-> [name |-> "Error", message |-> message]]

\* what the lookup of the configuration gives: a row, null, or an error
Missing == [kind |-> "missing"]

DbError == [kind |-> "dbError"]

\* testWebDAVConnection up to the first stage: the lookup of the row, the
\* decryption of its credentials, the fresh testResult
TestCall(lookup, decrypts) ==
    /\ diagPc = "idle"
    /\ IF lookup = DbError
       THEN /\ diagRet' = RawError(<<"D1_ERROR">>)
            /\ diagPc' = "done"
            /\ UNCHANGED <<diagConfig, testResult>>
       ELSE IF lookup = Missing
       THEN /\ diagRet' = Throw("NOT_FOUND", <<"WebDAV configuration does not exist">>)
            /\ diagPc' = "done"
            /\ UNCHANGED <<diagConfig, testResult>>
       ELSE IF ~decrypts
       THEN /\ diagRet' = RawError(<<"decryption failed">>)
            /\ diagPc' = "done"
            /\ UNCHANGED <<diagConfig, testResult>>
       ELSE /\ diagConfig' = lookup
            /\ testResult' = InitialTestResult
            /\ diagPc' = "connect"
            /\ UNCHANGED diagRet
    /\ UNCHANGED <<diagWire, diagAnswers>>
    /\ UNCHANGED <<pathVars, batchVars, opVars, clientVars, fnVars, cfgVars, driverVars>>

\* a stage sends its request unless btoa threw before
Sent(request) == IF btoaThrows(diagConfig) THEN diagWire ELSE Append(diagWire, request)

\* mutant: the stage has no catch block, and what fetch throws ends the run
ConnectTestNoCatch(outcome) ==
    LET met == Met(diagConfig, outcome)
    IN  /\ diagPc = "connect"
        /\ diagWire' = Sent(ConnectRequest(diagConfig))
        /\ diagAnswers' = Append(diagAnswers, [stage |-> "connect"] @@ met)
        /\ IF met.kind = "error"
           THEN /\ diagRet' = RawError(met.message)
                /\ diagPc' = "done"
                /\ UNCHANGED testResult
           ELSE /\ testResult' = [testResult EXCEPT
                                    !.connect = executeWebDAVConnectTest(@, met)]
                /\ diagPc' = "auth"
                /\ UNCHANGED diagRet
        /\ UNCHANGED diagConfig
        /\ UNCHANGED <<pathVars, batchVars, opVars, clientVars, fnVars, cfgVars, driverVars>>

ConnectTest(outcome) ==
    LET met == Met(diagConfig, outcome)
    IN  /\ diagPc = "connect"
        /\ diagWire' = Sent(ConnectRequest(diagConfig))
        /\ diagAnswers' = Append(diagAnswers, [stage |-> "connect"] @@ met)
        /\ testResult' = [testResult EXCEPT !.connect = executeWebDAVConnectTest(@, met)]
        /\ diagPc' = "auth"
        /\ UNCHANGED <<diagConfig, diagRet>>
        /\ UNCHANGED <<pathVars, batchVars, opVars, clientVars, fnVars, cfgVars, driverVars>>

AuthTest(outcome) ==
    LET met == Met(diagConfig, outcome)
    IN  /\ diagPc = "auth"
        /\ diagWire' = Sent(AuthRequest(diagConfig))
        /\ diagAnswers' = Append(diagAnswers, [stage |-> "auth"] @@ met)
        /\ testResult' = [testResult EXCEPT !.auth = executeWebDAVAuthTest(@, met)]
        /\ diagPc' = "read"
        /\ UNCHANGED <<diagConfig, diagRet>>
        /\ UNCHANGED <<pathVars, batchVars, opVars, clientVars, fnVars, cfgVars, driverVars>>

ReadTest(outcome) ==
    LET met == Met(diagConfig, outcome)
    IN  /\ diagPc = "read"
        /\ diagWire' = Sent(ReadRequest(diagConfig))
        /\ diagAnswers' = Append(diagAnswers, [stage |-> "read"] @@ met)
        /\ testResult' = [testResult EXCEPT !.read = executeWebDAVReadTest(@, met)]
        /\ diagPc' = "write"
        /\ UNCHANGED <<diagConfig, diagRet>>
        /\ UNCHANGED <<pathVars, batchVars, opVars, clientVars, fnVars, cfgVars, driverVars>>

\* the write stage up to the answer to its PUT; the cleanup follows when the
\* PUT succeeded
WriteTest(outcome) ==
    LET met == Met(diagConfig, outcome)
        after == executeWebDAVWriteTest(testResult.write, met, ProbePath(diagConfig))
    IN  /\ diagPc = "write"
        /\ diagWire' = Sent(ProbePutRequest(diagConfig))
        /\ diagAnswers' = Append(diagAnswers, [stage |-> "write"] @@ met)
        /\ testResult' = [testResult EXCEPT !.write = after]
        /\ diagPc' = IF after.success THEN "cleanup" ELSE "finish"
        /\ UNCHANGED <<diagConfig, diagRet>>
        /\ UNCHANGED <<pathVars, batchVars, opVars, clientVars, fnVars, cfgVars, driverVars>>

\* the DELETE of the probe file and what it met
CleanupTest(outcome) ==
    /\ diagPc = "cleanup"
    /\ diagWire' = Append(diagWire, ProbeDeleteRequest(diagConfig))
    /\ diagAnswers' = Append(diagAnswers, [stage |-> "cleanup"] @@ outcome)
    /\ testResult' = [testResult EXCEPT !.write = cleanupProbe(@, outcome)]
    /\ diagPc' = "finish"
    /\ UNCHANGED <<diagConfig, diagRet>>
    /\ UNCHANGED <<pathVars, batchVars, opVars, clientVars, fnVars, cfgVars, driverVars>>

\* updateWebDAVLastUsedTime, the summary and the return
Finish(updated) ==
    /\ diagPc = "finish"
    /\ diagRet' = IF updated
                  THEN LET summary == generateWebDAVTestSummary(testResult)
                       IN  Return([success |-> summary.overallSuccess,
                                   message |-> summary.message,
                                   result |-> testResult])
                  ELSE RawError(<<"D1_ERROR">>)
    /\ diagPc' = "done"
    /\ UNCHANGED <<diagConfig, testResult, diagWire, diagAnswers>>
    /\ UNCHANGED <<pathVars, batchVars, opVars, clientVars, fnVars, cfgVars, driverVars>>

InitDiag == DiagIdle /\ PathIdle /\ BatchIdle /\ OpIdle
    /\ ClientIdle /\ FnIdle /\ CfgIdle /\ DriverIdle

NextDiag ==
    \/ \E lookup \in DiagConfigs \cup {Missing, DbError} : \E decrypts \in BOOLEAN :
          TestCall(lookup, decrypts)
    \/ \E outcome \in DiagOutcomes : ConnectTest(outcome)
    \/ \E outcome \in DiagOutcomes : AuthTest(outcome)
    \/ \E outcome \in ReadOutcomes : ReadTest(outcome)
    \/ \E outcome \in DiagOutcomes : WriteTest(outcome)
    \/ \E outcome \in DiagOutcomes : CleanupTest(outcome)
    \/ \E updated \in BOOLEAN : Finish(updated)

SpecDiag == InitDiag /\ [][NextDiag]_vars

(***************************************************************************)
(* Properties of the batch operations.                                     *)
(***************************************************************************)
\* the positions of the input whose request has settled with / without success
Succeeded(i) == answers[i].kind = "response" /\ ok(answers[i].status)

RECURSIVE SettledIdx(_, _)
SettledIdx(n, good) ==
    IF n = 0 THEN <<>>
    ELSE IF Succeeded(n) = good THEN Append(SettledIdx(n - 1, good), n)
    ELSE SettledIdx(n - 1, good)

\* what an entry of results or errors says about which item it reports
EntryItem(op, e) ==
    IF op = "remove" THEN e.path
    ELSE [sourcePath |-> e.sourcePath, targetPath |-> e.targetPath]

Occurrences(seq, x) == Cardinality({i \in 1..Len(seq) : seq[i] = x})

\* C1: the returned summary counts every input item exactly once, as a
\* success or as a failure, and success is true exactly when errors is empty.
C1_BatchTotals ==
    batchPc = "done" =>
        /\ batchRet.raised = FALSE
        /\ Len(batchRet.results) + Len(batchRet.errors) = batchRet.total
        /\ batchRet.total = Len(items)
        /\ batchRet.successCount = Len(batchRet.results)
        /\ batchRet.errorCount = Len(batchRet.errors)
        /\ batchRet.success <=> (batchRet.errors = <<>>)

\* a batch of three items returned with one success, one non-2xx answer and
\* one transport failure
C1_Witness ==
    /\ batchPc = "done" /\ Len(items) = MaxItems
    /\ batchRet.successCount >= 1 /\ batchRet.errorCount >= 2
    /\ \E i \in 1..Len(answers) : answers[i].kind = "throw"
    /\ \E i \in 1..Len(answers) : answers[i].kind = "response" /\ ~ok(answers[i].status)
    /\ batchRet.success = FALSE

\* C2: a failed item (non-2xx answer or exception of the client) gives one
\* entry of errors for that item; every item of the input is requested, in
\* order, whatever happened to the earlier ones; the call returns a summary
\* and never throws.
C2_FailureIsolated ==
    /\ batchPc # "done" => batchRet = None
    /\ batchPc = "done" =>
        /\ batchRet.raised = FALSE
        /\ Len(wire) = Len(items)
        /\ \A i \in 1..Len(items) : wire[i] = BatchRequest(batchOp, items[i])
        /\ LET failed == SettledIdx(Len(answers), FALSE)
           IN  /\ Len(batchRet.errors) = Len(failed)
               /\ \A k \in 1..Len(failed) :
                    /\ EntryItem(batchOp, batchRet.errors[k]) = items[failed[k]]
                    /\ batchRet.errors[k].success = FALSE

\* the first item failed at the transport level, the second got a non-2xx
\* answer, and the last item was still requested and succeeded
C2_Witness ==
    /\ batchPc = "done" /\ Len(items) = MaxItems
    /\ answers[1].kind = "throw"
    /\ answers[2].kind = "response" /\ answers[2].status = 404
    /\ Succeeded(Len(items))
    /\ Len(batchRet.results) = Len(items) - 2

\* C3: results and errors list the succeeded and the failed items in input
\* order, and an item given k times is requested k times and reported k times.
C3_OrderAndNoDedup ==
    LET n == Len(answers)
        good == SettledIdx(n, TRUE)
        bad == SettledIdx(n, FALSE)
    IN  /\ Len(results) = Len(good)
        /\ \A k \in 1..Len(good) : EntryItem(batchOp, results[k]) = items[good[k]]
        /\ Len(errors) = Len(bad)
        /\ \A k \in 1..Len(bad) : EntryItem(batchOp, errors[k]) = items[bad[k]]
        /\ batchPc = "done" =>
             \A i \in 1..Len(items) :
                /\ Occurrences(wire, BatchRequest(batchOp, items[i])) = Occurrences(items, items[i])
                /\ Occurrences([k \in 1..Len(results) |-> EntryItem(batchOp, results[k])]
                                \o [k \in 1..Len(errors) |-> EntryItem(batchOp, errors[k])],
                               items[i])
                     = Occurrences(items, items[i])

\* the same path was given twice around another one: its first occurrence
\* failed and its second succeeded, and each is reported on its own, with the
\* two failures in input order
C3_Witness ==
    /\ batchPc = "done" /\ batchOp = "remove"
    /\ items = <<"/b.txt", "/a.txt", "/b.txt">>
    /\ ~Succeeded(1) /\ ~Succeeded(2) /\ Succeeded(3)
    /\ Len(errors) = 2 /\ errors[1].path = "/b.txt" /\ errors[2].path = "/a.txt"
    /\ Len(results) = 1

\* C4: at most one request of the batch is in flight; it is the one issued
\* last, and every request issued before it has settled.
C4_OneInFlight ==
    /\ Cardinality(inFlight) <= 1
    /\ \A i \in inFlight : i = Len(wire) /\ Len(answers) = i - 1
    /\ inFlight = {} => Len(answers) = Len(wire)

\* the second request is in flight after the first one has settled
C4_Witness == inFlight = {2} /\ Len(answers) = 1 /\ Len(wire) = 2 /\ batchOp = "copy"

(***************************************************************************)
(* Properties of the single-item operations.                               *)
(***************************************************************************)
Finished(name) == opPc = "done" /\ opName = name

Answered == opResp # Thrown /\ opResp # None

Raises(kind) == opOut.kind = "throw" /\ opOut.error.status = kind

\* C5: a successful listing holds exactly the children of the directory, in
\* document order, and never the entry of the directory itself.
C5_ListingExcludesSelf ==
    (Finished("listDirectory") /\ Answered /\ ok(opResp.status) /\ ~Has(opResp, "broken")) =>
        LET children == SelectSeq(opResp.body, LAMBDA e : ~e.self)
            parsed == parseWebDAVResponse(children)
        IN  /\ opOut.kind = "return"
            /\ opOut.value.content =
                 [k \in 1..Len(parsed) |-> formatDirectoryItem(parsed[k], opArgs.path)]

\* C9: getFileInfo sends one PROPFIND with Depth 0; 404 raises NotFound, any
\* other non-2xx status raises Internal, a 2xx answer without a parsed entry
\* raises NotFound, and otherwise the first parsed entry is returned in its
\* projection.
C9_GetFileInfoMapping ==
    Finished("getFileInfo") =>
        /\ Len(opWire) = 1
        /\ opWire[1].method = "PROPFIND" /\ opWire[1].Depth = "0"
        /\ opWire[1].path = opArgs.path
        /\ (Answered /\ ~Has(opResp, "broken")) =>
             LET entries == parseWebDAVResponse(opResp.body)
             IN  IF opResp.status = 404 THEN Raises("NOT_FOUND")
                 ELSE IF ~ok(opResp.status) THEN Raises("INTERNAL_ERROR")
                 ELSE IF entries = <<>> THEN Raises("NOT_FOUND")
                 ELSE /\ opOut = Return(formatFileInfo(entries[1], opArgs.path))
                      /\ opOut.value.path = opArgs.path
                      /\ opOut.value.isDirectory = entries[1].isDirectory

\* a 2xx answer whose only entry has a 404 propstat: nothing is parsed and
\* NotFound is raised
C9_Witness ==
    /\ Finished("getFileInfo") /\ Answered
    /\ opResp.status = 207 /\ Len(opResp.body) = 1
    /\ parseWebDAVResponse(opResp.body) = <<>>
    /\ Raises("NOT_FOUND")

\* C10: renameItem and copyItem raise NotFound naming the source on 404,
\* Conflict naming the target on 409, Internal on any other non-2xx status,
\* and return a success result with both paths on 2xx.
C10_RenameCopyMapping ==
    (opPc = "done" /\ opName \in {"renameItem", "copyItem"} /\ Answered) =>
        IF opResp.status = 404
        THEN Raises("NOT_FOUND") /\ Last(opOut.error.message) = opArgs.source
        ELSE IF opResp.status = 409
        THEN Raises("CONFLICT") /\ Last(opOut.error.message) = opArgs.target
        ELSE IF ~ok(opResp.status) THEN Raises("INTERNAL_ERROR")
        ELSE /\ opOut.kind = "return"
             /\ opOut.value.success = TRUE
             /\ IF opName = "renameItem"
                THEN opOut.value.oldPath = opArgs.source
                       /\ opOut.value.newPath = opArgs.target
                ELSE opOut.value.sourcePath = opArgs.source
                       /\ opOut.value.targetPath = opArgs.target

\* the MOVE of /a.md to /s is answered 409: Conflict naming /s
C10_Witness ==
    /\ Finished("renameItem") /\ Answered /\ opResp.status = 409
    /\ opWire = <<MoveRequest(opArgs.source, opArgs.target)>>
    /\ opArgs.target = <<"/", "s">>
    /\ opOut = Throw("CONFLICT", <<"target already exists", <<"/", "s">>>>)

\* C11: createDirectory sends one MKCOL for the path; 405 raises Conflict
\* saying the directory exists, 409 raises Conflict saying the parent is
\* missing, any other non-2xx status raises Internal, and a 2xx status
\* returns a success result for the path.
C11_CreateDirectoryMapping ==
    Finished("createDirectory") =>
        /\ opWire = <<MkcolRequest(opArgs.path)>>
        /\ Answered =>
             IF opResp.status = 405
             THEN opOut = Throw("CONFLICT", <<"directory already exists", opArgs.path>>)
             ELSE IF opResp.status = 409
             THEN opOut = Throw("CONFLICT", <<"parent directory does not exist", opArgs.path>>)
             ELSE IF ~ok(opResp.status) THEN Raises("INTERNAL_ERROR")
             ELSE /\ opOut.kind = "return"
                  /\ opOut.value.success = TRUE
                  /\ opOut.value.path = opArgs.path
                  /\ opOut.value.type = "directory"

\* the MKCOL of /d/s/ is answered 405: Conflict, the directory exists
C11_Witness ==
    /\ Finished("createDirectory") /\ Answered /\ opResp.status = 405
    /\ opArgs.path = <<"/", "d", "/", "s", "/">>
    /\ Raises("CONFLICT")
    /\ opOut.error.message[1] = "directory already exists"

\* C12: uploadFile raises Conflict on 409, Internal with the message of
\* insufficient storage on 507 and Internal with another message on any other
\* non-2xx status; on 2xx it returns success with the ETag header of the
\* response as etag, or null when the response has none.
C12_UploadResponseMapping ==
    (Finished("uploadFile") /\ Answered) =>
        IF opResp.status = 409 THEN Raises("CONFLICT")
        ELSE IF opResp.status = 507
        THEN opOut = Throw("INTERNAL_ERROR", <<"insufficient storage">>)
        ELSE IF ~ok(opResp.status)
        THEN Raises("INTERNAL_ERROR") /\ opOut.error.message # <<"insufficient storage">>
        ELSE /\ opOut.kind = "return"
             /\ opOut.value.success = TRUE
             /\ opOut.value.etag = IF Has(opResp.body, "ETag") THEN opResp.body.ETag
                                   ELSE <<"null">>

\* a PUT answered 507, and the message raised is the one kept for it
C12_Witness ==
    /\ Finished("uploadFile") /\ Answered /\ opResp.status = 507
    /\ Raises("INTERNAL_ERROR")
    /\ opOut.error.message = <<"insufficient storage">>

\* what uploadFile was given, and what it sent
UploadSent == opName = "uploadFile" /\ opWire # <<>>

ContentTypeGiven == Has(opArgs.options, "contentType") /\ opArgs.options.contentType # ""

InferredContentType ==
    CASE opArgs.file.rep = "string" -> "text/plain"
      [] opArgs.file.rep = "File" /\ opArgs.file.type # "" -> opArgs.file.type
      [] OTHER -> "application/octet-stream"

PayloadBytes ==
    IF opArgs.file.rep = "string" THEN TextEncode(opArgs.file.text) ELSE opArgs.file.bytes

CustomHeader(name) ==
    Has(opArgs.options, "headers") /\ Has(opArgs.options.headers, name)

\* C13 as stated: the Content-Type of the PUT is options.contentType when
\* that is given and the inferred type otherwise, and the Content-Length is
\* the size of the payload in bytes.
C13_UploadHeadersAsStated ==
    UploadSent =>
        /\ opWire[1].headers.ContentType =
             IF ContentTypeGiven THEN opArgs.options.contentType ELSE InferredContentType
        /\ opWire[1].headers.ContentLength = toString(Len(PayloadBytes))

\* C13, amended: the statement holds for each of the two headers that
\* options.headers does not set itself; a header set there is sent as it is
\* set there.  The body of the PUT is the payload, byte for byte.
C13_UploadHeaders ==
    UploadSent =>
        /\ Len(opWire) = 1
        /\ opWire[1].body = PayloadBytes
        /\ opWire[1].headers.ContentType =
             IF CustomHeader("ContentType") THEN opArgs.options.headers.ContentType
             ELSE IF ContentTypeGiven THEN opArgs.options.contentType
             ELSE InferredContentType
        /\ opWire[1].headers.ContentLength =
             IF CustomHeader("ContentLength") THEN opArgs.options.headers.ContentLength
             ELSE toString(Len(PayloadBytes))

\* a text of three characters and ten bytes is uploaded without a content
\* type: text/plain and a Content-Length of 10, not 3 and not the 4 of its
\* UTF-16 length
C13_Witness ==
    /\ UploadSent /\ opPc = "done"
    /\ opArgs.file.rep = "string"
    /\ opArgs.file.text = <<"zhong", "emoji", "zhong">>
    /\ ~Has(opArgs.options, "contentType") /\ ~Has(opArgs.options, "headers")
    /\ opWire[1].headers.ContentType = "text/plain"
    /\ opWire[1].headers.ContentLength = <<"1", "0">>
    /\ StringLength(opArgs.file.text) = 4

\* C14 as stated: exists never raises and returns true exactly when the HEAD
\* was answered 2xx.
C14_ExistsNeverRaisesAsStated ==
    Finished("exists") =>
        /\ opOut.kind = "return"
        /\ opOut.value = (Answered /\ ok(opResp.status))

\* C14, amended: once initialize has succeeded, exists sends one HEAD for the
\* normalized path, never raises, and returns true exactly when the HEAD was
\* answered 2xx (false for any other status and for a transport failure);
\* before that it sends nothing and raises the Internal error of
\* _ensureInitialized.
C14_ExistsOutcome ==
    Finished("exists") =>
        IF initialized
        THEN /\ opWire = <<HeadRequest(normalizeWebDAVPath(opArgs.path, FALSE))>>
             /\ opOut.kind = "return"
             /\ opOut.value = (Answered /\ ok(opResp.status))
        ELSE opWire = <<>> /\ opOut = NotInitialized

\* the HEAD failed at the transport level and exists returned false
C14_Witness ==
    /\ Finished("exists") /\ initialized /\ opResp = Thrown
    /\ opWire = <<HeadRequest(<<"/", "d">>)>>
    /\ opOut = Return(FALSE)

\* C21: generatePresignedUrl, handleCrossStorageCopy and
\* abortBackendMultipartUpload end at once with the exception that says the
\* feature is not supported, on an initialized driver and on one that is not;
\* they return nothing and send no request.
C21_UnsupportedAlwaysRaises ==
    opName \in UnsupportedOps =>
        /\ opPc = "done"
        /\ opOut = Throw("BAD_REQUEST", <<UnsupportedMessage(opName)>>)
        /\ opOut # NotInitialized
        /\ opWire = <<>> /\ opResp = None

\* generatePresignedUrl on a driver that was never initialized still raises
\* the error of the unsupported feature
C21_Witness ==
    /\ opName = "generatePresignedUrl" /\ opPc = "done" /\ ~initialized
    /\ opOut.kind = "throw" /\ opOut.error.status = "BAD_REQUEST"
    /\ opWire = <<>>

SingleItemOps == {"getFileInfo", "downloadFile", "renameItem", "copyItem", "updateFile",
                  "createDirectory", "uploadFile", "listDirectory"}

\* the call met something other than a complete 2xx answer
CallFailed ==
    \/ opResp = Thrown
    \/ opResp = None
    \/ ~ok(opResp.status)
    \/ Has(opResp, "broken")

Classified(outcome) ==
    /\ outcome.kind = "throw"
    /\ Has(outcome.error, "status")
    /\ outcome.error.status \in {"NOT_FOUND", "CONFLICT", "INTERNAL_ERROR"}

\* C22: a single-item operation that ends with an exception ends with one
\* HTTPException of kind NotFound, Conflict or Internal; this is how every
\* failed call ends: a non-2xx answer, a transport failure, a body that
\* cannot be read, a payload that cannot be read or is of no supported kind.
C22_FailuresAreClassified ==
    (opPc = "done" /\ opName \in SingleItemOps) =>
        /\ opOut.kind = "throw" => Classified(opOut)
        /\ CallFailed => Classified(opOut)
        /\ (opResp = Thrown \/ opResp = None \/ Has(opResp, "broken")) =>
             opOut.error.status = "INTERNAL_ERROR"

\* the PROPFIND of listDirectory was answered 207 and the body could not be
\* read: Internal
C22_Witness ==
    /\ Finished("listDirectory") /\ Answered /\ opResp.status = 207
    /\ Has(opResp, "broken")
    /\ Raises("INTERNAL_ERROR")

(***************************************************************************)
(* Properties of the connection test.                                      *)
(***************************************************************************)
\* the run has found its configuration and set up testResult
StagesStarted == testResult # None

\* the stages entered so far, in order (the cleanup belongs to the write stage)
StagesRun ==
    LET main == SelectSeq(diagAnswers, LAMBDA a : a.stage # "cleanup")
    IN  [k \in 1..Len(main) |-> main[k].stage]

\* what the stage met
AnswerOf(stage) == CHOOSE a \in {diagAnswers[k] : k \in 1..Len(diagAnswers)} : a.stage = stage

HasRun(stage) == \E k \in 1..Len(diagAnswers) : diagAnswers[k].stage = stage

Accepted(stage) == AnswerOf(stage).kind = "response" /\ ok(AnswerOf(stage).status)

Reported == diagPc = "done" /\ diagRet.kind = "return"

\* C15: in a run that has its configuration, connect, auth, read and write
\* are entered once each and in this order, whatever the earlier stages met;
\* the run does not end before all four were entered; and a step of a stage
\* changes the StageResult of that stage only.
C15_StagesAllRunInOrder ==
    /\ [](StagesStarted =>
            /\ StagesRun = SubSeq(Stages, 1, Len(StagesRun))
            /\ diagPc \in {"finish", "done"} => StagesRun = Stages)
    /\ [][\A s \in {"connect", "auth", "read", "write"} :
            (StagesStarted /\ testResult'[s] # testResult[s])
                => (diagPc = s \/ (s = "write" /\ diagPc = "cleanup"))]_vars

\* connect timed out, auth was refused, read failed at the transport level,
\* and the write stage still ran and succeeded
C15_Witness ==
    /\ Reported /\ StagesRun = Stages
    /\ AnswerOf("connect") = [stage |-> "connect"] @@ TimedOut
    /\ AnswerOf("auth").kind = "response" /\ AnswerOf("auth").status = 401
    /\ AnswerOf("read") = [stage |-> "read"] @@ FetchFailed
    /\ Accepted("write")
    /\ testResult.write.success /\ ~testResult.connect.success
    /\ Len(diagWire) = 5

\* C16: the success of the returned payload is connect.success and
\* auth.success and read.success, whatever write.success is.
C16_OverallSuccess ==
    Reported =>
        diagRet.value.success =
            (diagRet.value.result.connect.success /\ diagRet.value.result.auth.success
                /\ diagRet.value.result.read.success)

\* connect, auth and read answered 2xx, the listing had three entries, the
\* PUT was answered 500: overall success, two files counted, write failed
C16_Witness ==
    /\ Reported
    /\ Accepted("connect") /\ Accepted("auth") /\ Accepted("read")
    /\ AnswerOf("write").kind = "response" /\ AnswerOf("write").status = 500
    /\ Has(testResult.read, "fileCount") /\ testResult.read.fileCount = 2
    /\ ~diagRet.value.result.write.success
    /\ diagRet.value.success = TRUE
    /\ diagRet.value.message = "partial success: connect, auth and read; write unavailable"

\* C17 as stated: the summary is one of four kinds, and one worded as success
\* or partial success comes only with overall success.
C17_FourKindsAsStated ==
    Reported =>
        LET r == diagRet.value.result
            m == diagRet.value.message
        IN  /\ \/ m = "success: connect, auth, read and write"
                    /\ r.connect.success /\ r.auth.success /\ r.read.success
                    /\ r.write.success
               \/ m = "partial success: connect, auth and read; write unavailable"
                    /\ r.connect.success /\ r.auth.success /\ r.read.success
                    /\ ~r.write.success
               \/ m = "failure: connected, authentication failed"
               \/ m = "failure: cannot connect to the server"
            /\ m \in {"success: connect, auth, read and write",
                      "partial success: connect, auth and read; write unavailable",
                      "partial success: connect and auth; read unavailable"}
                 => diagRet.value.success

\* C17, amended: the summary is one of five kinds: the four of the claim and
\* a partial success with read unavailable (connect and auth succeeded, read
\* failed), which comes with overall success false; full success and partial
\* success with write unavailable come exactly with overall success true.
C17_SummaryKinds ==
    Reported =>
        LET r == diagRet.value.result
            m == diagRet.value.message
        IN  /\ m = IF ~r.connect.success THEN "failure: cannot connect to the server"
                   ELSE IF ~r.auth.success THEN "failure: connected, authentication failed"
                   ELSE IF ~r.read.success
                   THEN "partial success: connect and auth; read unavailable"
                   ELSE IF ~r.write.success
                   THEN "partial success: connect, auth and read; write unavailable"
                   ELSE "success: connect, auth, read and write"
            /\ diagRet.value.success <=>
                 m \in {"success: connect, auth, read and write",
                        "partial success: connect, auth and read; write unavailable"}

\* connect and auth succeeded, read was answered 404 and the PUT 2xx: the
\* fifth kind, with overall success false
C17_Witness ==
    /\ Reported
    /\ Accepted("connect") /\ Accepted("auth") /\ Accepted("write")
    /\ AnswerOf("read").kind = "response" /\ AnswerOf("read").status = 404
    /\ diagRet.value.message = "partial success: connect and auth; read unavailable"
    /\ diagRet.value.success = FALSE

\* C18: once the connect stage has run, connect.success is true exactly when
\* its OPTIONS request to the root of the server was answered 2xx or 401;
\* any other status, an error of fetch or a timeout leaves it false.
C18_ConnectSuccess ==
    (StagesStarted /\ HasRun("connect")) =>
        LET met == AnswerOf("connect")
        IN  /\ testResult.connect.success <=>
                 (met.kind = "response" /\ (ok(met.status) \/ met.status = 401))
            /\ ~(met.kind = "error" /\ met.name = "InvalidCharacterError") =>
                 /\ diagWire[1].method = "OPTIONS"
                 /\ diagWire[1].url = ServerUrl(diagConfig) \o <<"/">>
                 /\ ~endsWith(ServerUrl(diagConfig), "/")

\* the OPTIONS request was answered 401 and the stage counts as a success
C18_Witness ==
    /\ diagPc = "auth" /\ HasRun("connect")
    /\ diagConfig.server_url = <<"https://h", "/">>
    /\ diagWire = <<ConnectRequest(diagConfig)>>
    /\ diagWire[1].url = <<"https://h", "/">>
    /\ AnswerOf("connect").kind = "response" /\ AnswerOf("connect").status = 401
    /\ testResult.connect.success

\* C19: when the write stage is over, the DELETE of the probe file has been
\* sent exactly if the PUT was answered 2xx; it follows the PUT, for the same
\* URL; and whatever the DELETE met, write.success stays true and only
\* cleaned tells how the cleanup went.
C19_CleanupAfterWrite ==
    /\ (StagesStarted /\ diagPc \in {"finish", "done"}) =>
        /\ HasRun("cleanup") <=> Accepted("write")
        /\ HasRun("cleanup") =>
             /\ Last(diagWire) = ProbeDeleteRequest(diagConfig)
             /\ diagWire[Len(diagWire) - 1] = ProbePutRequest(diagConfig)
             /\ Last(diagWire).url = diagWire[Len(diagWire) - 1].url
             /\ testResult.write.success = TRUE
             /\ testResult.write.cleaned = Accepted("cleanup")
        /\ ~HasRun("cleanup") =>
             /\ \A k \in 1..Len(diagWire) : diagWire[k].method # "DELETE"
             /\ ~testResult.write.success
    /\ diagPc = "cleanup" => testResult.write.success

\* the PUT was answered 2xx, the DELETE failed at the transport level: the
\* write stage is a success and cleaned is false
C19_Witness ==
    /\ Reported /\ Accepted("write")
    /\ AnswerOf("cleanup") = [stage |-> "cleanup"] @@ FetchFailed
    /\ testResult.write.success
    /\ testResult.write.cleaned = FALSE
    /\ testResult.write.cleanupError = <<"fetch failed">>

\* C20: testWebDAVConnection ends with a payload (success, message, result)
\* and never with an exception, whatever its lookup, its stages and its
\* bookkeeping met.
C20_NeverRaises ==
    diagPc = "done" => diagRet.kind = "return"

InitPath == PathInit /\ BatchIdle /\ OpIdle /\ DiagIdle
    /\ ClientIdle /\ FnIdle /\ CfgIdle /\ DriverIdle

NextPath ==
    \/ \E c \in BOOLEAN : Normalize(c)
    \/ Encode
    \/ Decode

SpecPath == InitPath /\ [][NextPath]_vars

(***************************************************************************)
(* Properties of the path utilities.                                       *)
(***************************************************************************)
IsNormalize(k) == k \in 1..Len(ops) /\ ops[k][1] = "normalize"

IsOp(k, name) == k \in 1..Len(ops) /\ ops[k] = <<name>>

NoDoubleSlash(s) == \A i \in 1..(Len(s) - 1) : ~(s[i] = "/" /\ s[i + 1] = "/")

SlashCount(s) == Cardinality({i \in 1..Len(s) : s[i] = "/"})

\* C6: normalizing an already normalized path with the same collection flag
\* gives the same path back.
C6_NormalizeIdempotent ==
    \A k \in 1..Len(ops) :
        (IsNormalize(k) /\ IsNormalize(k + 1) /\ ops[k + 1] = ops[k])
            => vals[k + 2] = vals[k + 1]

\* a relative, multi-slash path was normalized twice with the same flag
C6_Witness ==
    /\ Len(ops) >= 2 /\ IsNormalize(1) /\ ops[2] = ops[1]
    /\ vals[1] = <<"a", "/", "/">>
    /\ vals[2] # vals[1]

\* C7: a normalized path is rooted, has no two adjacent slashes, and ends
\* with a slash exactly when it is a collection path or the root.
C7_NormalizeShape ==
    \A k \in 1..Len(ops) :
        IsNormalize(k) =>
            LET r == vals[k + 1]
            IN  /\ startsWith(r, "/")
                /\ NoDoubleSlash(r)
                /\ endsWith(r, "/") <=> (ops[k][2] \/ r = <<"/">>)

\* a multi-slash path was normalized as a file path and lost its trailing slash
C7_Witness ==
    /\ IsNormalize(1) /\ ops[1][2] = FALSE
    /\ vals[1] = <<"/", "/", "a">>
    /\ vals[2] = <<"/", "a">>

\* C8: decode after encode gives the path back, encode keeps every separator
\* where it is (segment by segment), and encode, encode, decode does not give
\* the path back when encode changes it.
C8_EncodeDecodeRoundTrip ==
    \A k \in 1..Len(ops) :
        /\ (IsOp(k, "encode") /\ IsOp(k + 1, "decode")) => vals[k + 2] = vals[k]
        /\ IsOp(k, "encode") =>
              LET a == Split(vals[k])
                  b == Split(vals[k + 1])
              IN  /\ SlashCount(vals[k + 1]) = SlashCount(vals[k])
                  /\ Len(b) = Len(a)
                  /\ \A i \in 1..Len(a) : decodeURIComponent(b[i]) = a[i]
        /\ (IsOp(k, "encode") /\ IsOp(k + 1, "encode") /\ IsOp(k + 2, "decode")
                /\ vals[k + 1] # vals[k])
              => vals[k + 3] # vals[k]

\* a path with a separator and reserved characters went through encode, decode
C8_Witness ==
    /\ IsOp(1, "encode") /\ IsOp(2, "decode")
    /\ vals[1] = <<"%", "/", " ">>
    /\ vals[2] = <<"%", "2", "5", "/", "%", "2", "0">>
    /\ vals[3] = vals[1]

\* C29: while the flag is not set, no request has been issued by either
\* machine, a capability method that was called has ended in the "not
\* initialized" Internal error, and that error is raised in no other case;
\* the flag is set only when initialize has built the client.
C29_RefusedUntilInitialized ==
    /\ ~initialized =>
          /\ opWire = <<>> /\ wire = <<>> /\ batchPc = "idle"
          /\ opPc # "idle" =>
                /\ opPc = "done"
                /\ opName \in CapabilityMethods
                /\ opOut = NotInitialized
    /\ (initialized /\ opPc = "done") => opOut # NotInitialized
    /\ initialized => webdavClient # None

\* initialize failed, then batchRemoveItems was called and refused
C29_Witness ==
    /\ ~initialized /\ webdavClient = None
    /\ opPc = "done" /\ opName = "batchRemoveItems"
    /\ opOut = NotInitialized
    /\ opWire = <<>> /\ wire = <<>>

\* C28: updateFile raises Internal for every PUT answer that is not 2xx, and
\* the size of a successful update is the number of bytes of the PUT body.
C28_UpdateSizeIsBytesWritten ==
    (Finished("updateFile") /\ Answered) =>
        /\ ~ok(opResp.status) => Raises("INTERNAL_ERROR")
        /\ ok(opResp.status) =>
             /\ opOut.kind = "return"
             /\ opOut.value.size = Len(opWire[1].body)

(***************************************************************************)
(* WebDAVClient: the constructor, request and the eight verb helpers.      *)
(* An object is a record; an absent field is undefined, and an object with *)
(* none of the fields the client reads is written None.  A header object   *)
(* is a set of <<name, value>> pairs.                                      *)
(***************************************************************************)
\* { ...a, ...b } on header objects: a name of b replaces the same name of a
SpreadHeaders(a, b) == b \cup {p \in a : \A q \in b : q[1] # p[1]}

\* { ...o }: the fields of o; spreading undefined gives no field
Spread(o) == [f \in DOMAIN o \ {"kind"} |-> o[f]]

\* config.url.replace(/\/$/, '')
baseUrl(config) ==
    IF endsWith(config.url, "/") THEN SubSeq(config.url, 1, Len(config.url) - 1)
    ELSE config.url

\* _createAuthHeader: Basic credentials only when both parts are truthy
authHeader(config) ==
    IF config.username # <<>> /\ config.password # <<>>
    THEN {<<"Authorization", <<"Basic", config.username \o <<":">> \o config.password>>>>}
    ELSE {}

\* the arguments request hands to fetch
fetchArguments(config, method, path, options) ==
    [url |-> baseUrl(config) \o path,
     init |-> (IF Has(options, "fetchOptions") THEN Spread(options.fetchOptions) ELSE <<>>)
              @@ (IF Has(options, "body") THEN [body |-> options.body] ELSE <<>>)
              @@ [method |-> method,
                  headers |-> SpreadHeaders(authHeader(config),
                                  IF Has(options, "headers") THEN options.headers ELSE {})]]

\* what a verb helper passes to request: the method, the path and the options
helperRequest(config, call) ==
    LET options == call.options
    IN  CASE call.verb = "propfind" ->
               [method |-> "PROPFIND", path |-> call.path,
                options |->
                  [headers |-> {<<"Depth", IF Has(options, "depth") THEN options.depth ELSE "1">>,
                                <<"Content-Type", "application/xml">>},
                   body |-> IF Has(options, "body") /\ options.body # <<>>
                            THEN options.body ELSE <<AllPropBody>>]]
          [] call.verb = "put" ->
               [method |-> "PUT", path |-> call.path,
                options |-> Spread(options) @@ [body |-> call.body]]
          [] call.verb = "move" ->
               [method |-> "MOVE", path |-> call.path,
                options |->
                  [headers |-> {<<"Destination", baseUrl(config) \o call.targetPath>>,
                                <<"Overwrite",
                                  IF Has(options, "overwrite") /\ options.overwrite = FALSE
                                  THEN "F" ELSE "T">>}]]
          [] call.verb = "copy" ->
               [method |-> "COPY", path |-> call.path,
                options |->
                  [headers |-> {<<"Destination", baseUrl(config) \o call.targetPath>>,
                                <<"Overwrite",
                                  IF Has(options, "overwrite") /\ options.overwrite = FALSE
                                  THEN "F" ELSE "T">>,
                                <<"Depth",
                                  IF Has(options, "depth") THEN options.depth ELSE "infinity">>}]]
          [] call.verb = "get" -> [method |-> "GET", path |-> call.path, options |-> options]
          [] call.verb = "head" -> [method |-> "HEAD", path |-> call.path, options |-> options]
          [] call.verb = "delete" ->
               [method |-> "DELETE", path |-> call.path, options |-> options]
          [] call.verb = "mkcol" ->
               [method |-> "MKCOL", path |-> call.path, options |-> options]

\* request after its fetch settled, raising on every status that is not 2xx
requestRaisesOnStatus(met) ==
    IF met = Thrown \/ ~ok(met.status) THEN RequestFailed ELSE Return(met)

\* request after its fetch settled: the response as it is, or the one error
\* of the catch block
requestSettled(met) ==
    IF met = Thrown THEN RequestFailed ELSE Return(met)



ClientConfigs ==
    [url : {<<"h">>, <<"h", "/">>}, username : {<<>>, <<"u">>}, password : {<<>>, <<"p">>}]

ClientPaths == {<<"/">>, <<"/", "a">>}

\* the options objects a caller passes to the helper named verb
ClientOptions(verb) ==
    {None}
    \cup (IF verb \in {"propfind", "copy"} THEN {[depth |-> "0"]} ELSE {})
    \cup (IF verb = "propfind" THEN {[body |-> <<"q">>], [body |-> <<>>]} ELSE {})
    \cup (IF verb \in {"move", "copy"} THEN {[overwrite |-> FALSE]} ELSE {})
    \cup (IF verb \in {"get", "head", "delete", "mkcol", "put"}
          THEN {[headers |-> {<<"Authorization", "token">>}],
                [headers |-> {<<"Range", "bytes=0-1">>}],
                [fetchOptions |-> [redirect |-> "manual"]]}
          ELSE {})

ClientCalls ==
    UNION {
      {[verb |-> verb, path |-> path, options |-> options] :
          path \in ClientPaths, options \in ClientOptions(verb)} :
      verb \in {"propfind", "get", "head", "delete", "mkcol"}}
    \cup {[verb |-> "put", path |-> path, body |-> <<"b">>, options |-> options] :
            path \in ClientPaths, options \in ClientOptions("put")}
    \cup UNION {
      {[verb |-> verb, path |-> path, targetPath |-> <<"/", "t">>, options |-> options] :
          path \in ClientPaths, options \in ClientOptions(verb)} :
      verb \in {"move", "copy"}}

\* a verb helper is called: it calls request, which calls fetch and awaits it
VerbCall(config, call) ==
    /\ clientPc = "idle"
    /\ clientCall' = [config |-> config, call |-> call]
    /\ fetches' = Append(fetches,
                     LET r == helperRequest(config, call)
                     IN  [request |-> fetchArguments(config, r.method, r.path, r.options),
                          settled |-> None])
    /\ clientPc' = "fetch"
    /\ UNCHANGED clientRet
    /\ UNCHANGED <<pathVars, batchVars, opVars, diagVars, fnVars, cfgVars, driverVars>>

Call(config) == \E call \in ClientCalls : VerbCall(config, call)

\* fetch resolves with a response of any status; request returns it
FetchResolves(status) ==
    /\ clientPc = "fetch"
    /\ fetches' = [fetches EXCEPT ![Len(fetches)].settled = Response(status, <<>>)]
    /\ clientRet' = requestSettled(Response(status, <<>>))
    /\ clientPc' = "done"
    /\ UNCHANGED clientCall
    /\ UNCHANGED <<pathVars, batchVars, opVars, diagVars, fnVars, cfgVars, driverVars>>

\* fetch rejects (no connection, TLS failure, abort); request raises
FetchRejects ==
    /\ clientPc = "fetch"
    /\ fetches' = [fetches EXCEPT ![Len(fetches)].settled = Thrown]
    /\ clientRet' = requestSettled(Thrown)
    /\ clientPc' = "done"
    /\ UNCHANGED clientCall
    /\ UNCHANGED <<pathVars, batchVars, opVars, diagVars, fnVars, cfgVars, driverVars>>

InitClient == ClientIdle /\ PathIdle /\ BatchIdle /\ OpIdle /\ DiagIdle
    /\ FnIdle /\ CfgIdle /\ DriverIdle

NextClient ==
    \/ \E config \in ClientConfigs : Call(config)
    \/ \E status \in OpStatuses : FetchResolves(status)
    \/ FetchRejects

SpecClient == InitClient /\ [][NextClient]_vars

\* C23: a call of a verb helper makes exactly one call of fetch, with the
\* helper's method; when fetch resolves the helper returns that very response
\* whatever its status, 4xx and 5xx included, and when fetch rejects the
\* helper raises the one Internal error of request.
C23_OneRequestNoRetry ==
    /\ clientPc = "idle" => fetches = <<>>
    /\ clientPc # "idle" =>
         /\ Len(fetches) = 1
         /\ fetches[1].request.init.method =
              helperRequest(clientCall.config, clientCall.call).method
    /\ clientPc = "done" =>
         LET met == fetches[1].settled
         IN  /\ met.kind = "response" => clientRet = Return(met)
             /\ met = Thrown => clientRet = RequestFailed
             /\ clientRet.kind = "throw" => met = Thrown

\* a HEAD met 404 and the response came back to the caller
C23_Witness ==
    /\ clientPc = "done"
    /\ clientCall.call.verb = "head"
    /\ Len(fetches) = 1
    /\ fetches[1].settled = Response(404, <<>>)
    /\ clientRet = Return(Response(404, <<>>))

(***************************************************************************)
(* parseWebDAVResponse applied to a multistatus document.  A document is   *)
(* the sequence of its <d:response> elements; an element is a record with  *)
(* the text of its <d:href> (when it has one) and its <d:propstat>         *)
(* elements in document order.                                             *)
(***************************************************************************)
MaxResponses == 2

OkProps == [getcontentlength |-> 120, getlastmodified |-> "d1"]

CollectionProps == [resourcetype |-> "<d:collection/>", getlastmodified |-> "d1"]

\* the <response> elements a server can send
ParseElements ==
    {FileElement(<<"/", "a">>, FALSE),
     CollectionElement(<<"/", "s", "/">>, "d", FALSE),
     \* a collection for which the server reports a length (the size of its inode)
     [href |-> <<"/", "c", "/">>,
      propstats |-> <<[status |-> "200",
                       prop |-> [getcontentlength |-> 4096] @@ CollectionProps]>>,
      self |-> FALSE],
     [href |-> <<"/", "z", "/">>,
      propstats |-> <<[status |-> "200",
                       prop |-> [getcontentlength |-> 0] @@ CollectionProps]>>,
      self |-> FALSE],
     \* the properties that were not found first, the properties found second
     [href |-> <<"/", "b">>,
      propstats |-> <<[status |-> "404", prop |-> [getetag |-> <<>>]],
                      [status |-> "200", prop |-> OkProps]>>,
      self |-> FALSE],
     [href |-> <<"/", "e">>,
      propstats |-> <<[status |-> "200", prop |-> OkProps],
                      [status |-> "404", prop |-> [getetag |-> <<>>]]>>,
      self |-> FALSE],
     MissingElement(<<"/", "m">>, FALSE),
     \* an href that is not a percent-encoding
     [href |-> <<"/", "%", "z">>,
      propstats |-> <<[status |-> "200", prop |-> OkProps]>>,
      self |-> FALSE],
     [href |-> <<"/", "%", "2", "0">>,
      propstats |-> <<[status |-> "200", prop |-> OkProps]>>,
      self |-> FALSE],
     \* no <d:propstat> at all, and no <d:href> at all
     [href |-> <<"/", "n">>, propstats |-> <<>>, self |-> FALSE],
     [propstats |-> <<[status |-> "200", prop |-> OkProps]>>, self |-> FALSE]}

ParseDocuments == SeqsUpTo(ParseElements, MaxResponses)

\* parseWebDAVResponse(xmlText) is called and returns; its catch block returns []
ParseCall(xml) ==
    /\ fnName = "none"
    /\ fnName' = "parseWebDAVResponse"
    /\ fnIn' = xml
    /\ fnOut' = Return(parseWebDAVResponse(xml))
    /\ UNCHANGED <<pathVars, batchVars, opVars, diagVars, clientVars, cfgVars, driverVars>>

InitParse == FnIdle /\ PathIdle /\ BatchIdle /\ OpIdle /\ DiagIdle
    /\ ClientIdle /\ CfgIdle /\ DriverIdle

NextParse == \E xml \in ParseDocuments : ParseCall(xml)

SpecParse == InitParse /\ [][NextParse]_vars

Parsed == fnName = "parseWebDAVResponse"

\* the propstats of an element whose status line is 200
OkPropstats(response) ==
    SelectSeq(response.propstats, LAMBDA p : Has(p, "status") /\ p.status = "200")

Decodable(response) ==
    Has(response, "href") /\ decodeURIComponent(trim(response.href)) # URIError

\* C24: for a document of one <response> element with a decodable href, the
\* descriptor carries the properties of the first propstat whose status is
\* 200, whichever position that propstat has, and the element is dropped only
\* when it has propstats and none of them has status 200.
C24_FirstOkPropstatAnywhere ==
    (Parsed /\ Len(fnIn) = 1 /\ Decodable(fnIn[1])) =>
        LET response == fnIn[1]
            found == OkPropstats(response)
        IN  /\ found # <<>> =>
                 /\ Len(fnOut.value) = 1
                 /\ Has(fnOut.value[1], "isDirectory")
                 /\ Has(found[1].prop, "getcontentlength") =>
                      (Has(fnOut.value[1], "size")
                         /\ fnOut.value[1].size = found[1].prop.getcontentlength)
            /\ fnOut.value = <<>> => (response.propstats # <<>> /\ found = <<>>)

\* C25: every descriptor that is a collection has size 0.
C25_CollectionSizeZero ==
    Parsed =>
        \A i \in 1..Len(fnOut.value) :
            LET item == fnOut.value[i]
            IN  (Has(item, "isDirectory") /\ item.isDirectory) =>
                    (Has(item, "size") /\ item.size = 0)

\* the elements parseResponseItem returns a descriptor for: those whose href,
\* if any, can be decoded and whose first propstat, if any, is not a failure
Kept(xml) ==
    SelectSeq(xml, LAMBDA response :
        /\ Has(response, "href") => Decodable(response)
        /\ response.propstats # <<>> =>
             ~(Has(response.propstats[1], "status") /\ response.propstats[1].status # "200"))

MaxSegments == 2

\* path.replace(/^\/+|\/+$/g, ''): the leading and the trailing slashes go
RECURSIVE stripLeadingSlashes(_)
stripLeadingSlashes(s) ==
    IF s # <<>> /\ Head(s) = "/" THEN stripLeadingSlashes(Tail(s)) ELSE s

RECURSIVE stripTrailingSlashes(_)
stripTrailingSlashes(s) ==
    IF s # <<>> /\ Last(s) = "/" THEN stripTrailingSlashes(SubSeq(s, 1, Len(s) - 1)) ELSE s

stripSlashes(s) == stripTrailingSlashes(stripLeadingSlashes(s))

\* joinWebDAVPath(...paths): the non-empty segments, stripped, joined, rooted
joinWebDAVPath(paths) ==
    LET given == SelectSeq(paths, LAMBDA path : path # <<>>)
        cleaned == [k \in 1..Len(given) |-> stripSlashes(given[k])]
    IN  <<"/">> \o Join(cleaned)

JoinSegments == SeqsUpTo({"/", "a"}, MaxPathLen)

JoinCall(paths) ==
    /\ fnName = "none"
    /\ fnName' = "joinWebDAVPath"
    /\ fnIn' = paths
    /\ fnOut' = Return(joinWebDAVPath(paths))
    /\ UNCHANGED <<pathVars, batchVars, opVars, diagVars, clientVars, cfgVars, driverVars>>

InitJoin == FnIdle /\ PathIdle /\ BatchIdle /\ OpIdle /\ DiagIdle
    /\ ClientIdle /\ CfgIdle /\ DriverIdle

NextJoin == \E paths \in SeqsUpTo(JoinSegments, MaxSegments) : JoinCall(paths)

SpecJoin == InitJoin /\ [][NextJoin]_vars

\* C27: the joined path starts with exactly one "/", and when no segment has
\* two adjacent separators of its own between its first and last name
\* character, the joined path has no two adjacent separators at all.
C27_JoinSingleSeparators ==
    fnName = "joinWebDAVPath" =>
        /\ startsWith(fnOut.value, "/")
        /\ ~(Len(fnOut.value) >= 2 /\ fnOut.value[2] = "/")
        /\ (\A k \in 1..Len(fnIn) :
                CollapseSlashes(stripSlashes(fnIn[k])) = stripSlashes(fnIn[k]))
              => CollapseSlashes(fnOut.value) = fnOut.value

(***************************************************************************)
(* WebDAVConfigService.deleteWebDAVConfig.  The service awaits three       *)
(* repository calls one after the other; requests of other users run       *)
(* between them, among them the ones that store a file row pointing at a   *)
(* configuration.                                                          *)
(***************************************************************************)
MaxFiles == 2

ConfigRows == {[id |-> "c1", admin_id |-> "a1"], [id |-> "c2", admin_id |-> "a2"]}

ConfigIds == {"c1", "c2", "c3"}

AdminIds == {"a1", "a2"}

\* webdavConfigRepository.findByIdAndAdmin(id, adminId): the rows found
findByIdAndAdmin(id, adminId) == {row \in configs : row.id = id /\ row.admin_id = adminId}

\* fileRepository.countByStorageConfigId(id, "WebDAV")
countByStorageConfigId(id) == Len(SelectSeq(files, LAMBDA ref : ref = id))

\* deleteWebDAVConfig(id, adminId) is called
DeleteCall(id, adminId) ==
    /\ delPc = "idle"
    /\ delArgs' = [id |-> id, adminId |-> adminId]
    /\ delPc' = "find"
    /\ UNCHANGED <<configs, files, delRet>>
    /\ UNCHANGED <<pathVars, batchVars, opVars, diagVars, clientVars, fnVars, driverVars>>

\* the first await returns: NotFound when there is no such row
FindConfig ==
    /\ delPc = "find"
    /\ IF findByIdAndAdmin(delArgs.id, delArgs.adminId) = {}
       THEN /\ delRet' = Throw("NOT_FOUND", <<"WebDAV config does not exist">>)
            /\ delPc' = "done"
       ELSE /\ delPc' = "count"
            /\ UNCHANGED delRet
    /\ UNCHANGED <<configs, files, delArgs>>
    /\ UNCHANGED <<pathVars, batchVars, opVars, diagVars, clientVars, fnVars, driverVars>>

\* the second await returns: Conflict when a file uses the configuration
CountFiles ==
    /\ delPc = "count"
    /\ IF countByStorageConfigId(delArgs.id) > 0
       THEN /\ delRet' = Throw("CONFLICT", <<"config is used by files",
                                            countByStorageConfigId(delArgs.id)>>)
            /\ delPc' = "done"
       ELSE /\ delPc' = "delete"
            /\ UNCHANGED delRet
    /\ UNCHANGED <<configs, files, delArgs>>
    /\ UNCHANGED <<pathVars, batchVars, opVars, diagVars, clientVars, fnVars, driverVars>>

\* webdavConfigRepository.deleteConfig(id), and the call returns
DeleteConfig ==
    /\ delPc = "delete"
    /\ configs' = {row \in configs : row.id # delArgs.id}
    /\ delRet' = Return(<<>>)
    /\ delPc' = "done"
    /\ UNCHANGED <<files, delArgs>>
    /\ UNCHANGED <<pathVars, batchVars, opVars, diagVars, clientVars, fnVars, driverVars>>

\* another request stores a file on the storage of an existing configuration
AddFile(id) ==
    /\ Len(files) < MaxFiles
    /\ \E row \in configs : row.id = id
    /\ files' = Append(files, id)
    /\ UNCHANGED <<configs, delPc, delArgs, delRet>>
    /\ UNCHANGED <<pathVars, batchVars, opVars, diagVars, clientVars, fnVars, driverVars>>

\* any set of configurations, no file yet
InitConfig ==
    /\ configs \in SUBSET ConfigRows
    /\ files = <<>> /\ delPc = "idle" /\ delArgs = None /\ delRet = None
    /\ PathIdle /\ BatchIdle /\ OpIdle /\ DiagIdle /\ ClientIdle /\ FnIdle /\ DriverIdle

NextConfig ==
    \/ \E id \in ConfigIds : \E adminId \in AdminIds : DeleteCall(id, adminId)
    \/ FindConfig
    \/ CountFiles
    \/ DeleteConfig
    \/ \E id \in ConfigIds : AddFile(id)

SpecConfig == InitConfig /\ [][NextConfig]_vars

\* every file row points at a stored configuration
NoDanglingReference ==
    \A k \in 1..Len(files) : \E row \in configs : row.id = files[k]

\* the call has ended in the error kind
DeleteRaised(kind) ==
    delPc = "done" /\ delRet.kind = "throw" /\ delRet.error.status = kind

\* C30: NotFound is raised exactly when the admin has no such
\* configuration and Conflict when a file uses it, the errors leave the
\* stored configurations as they were, a call that returns has removed the
\* configuration, and no configuration that a file references is ever
\* deleted, whatever file rows are added meanwhile.
C30_DeleteKeepsReferencedConfigs ==
    /\ [](/\ DeleteRaised("NOT_FOUND") => findByIdAndAdmin(delArgs.id, delArgs.adminId) = {}
          /\ DeleteRaised("CONFLICT") => countByStorageConfigId(delArgs.id) > 0
          /\ (delPc = "done" /\ delRet.kind = "return") =>
                \A row \in configs : row.id # delArgs.id
          /\ NoDanglingReference)
    /\ [][/\ (delRet'.kind = "throw" /\ delRet.kind # "throw") => configs' = configs
          /\ configs' # configs => countByStorageConfigId(delArgs.id) = 0]_vars

====
